---- MODULE Spec2Model ----
\* A model of SimTradeData's incremental-sync core.
\*   BatchWriter  (simtradedata/database/batch_writer.py)  : specification SpecBW
\*   GapDetector  (simtradedata/sync/gap_detector.py)      : specifications SpecGap, SpecScan
\*   SyncManager  (simtradedata/sync/manager.py)           : specifications SpecPlan, SpecExt,
\*                                                           SpecResume, SpecCal, SpecFix, SpecFull
\*   DataValidator (simtradedata/sync/validator.py)        : specification SpecVal
\*   ConnectionManager (simtradedata/data_sources/connection_manager.py)
\*                                                         : specifications SpecConn, SpecStray,
\*                                                           SpecSession
\*   PerformanceMonitor (simtradedata/monitoring/performance_monitor.py)
\*                                                         : specification SpecPerf
\* Each specification drives one component; the variables of the other
\* components stay at their initial values.
EXTENDS Integers, Sequences, FiniteSets, TLC

VARIABLES
    \* ---- BatchWriter
    batch_size,     \* BatchWriter.batch_size
    auto_flush,     \* BatchWriter.auto_flush
    bufKeys,        \* key insertion order of BatchWriter._buffer (a defaultdict)
    buffer,         \* BatchWriter._buffer: table -> list of records
    stats,          \* BatchWriter._stats (the counters; elapsed time is left out)
    db,             \* the relational store: table -> set of rows
    scope,          \* "in": inside the with-block (or plain use), "exited": after __exit__
    nadds,          \* number of add_record calls made so far (bounds the exploration)
    ret,            \* what the last call did: its arguments, return value, exception
    \* ---- GapDetector
    trading_calendar,   \* the rows of table trading_calendar
    gapdb,              \* the scanned data tables: table -> set of rows
    out,                \* the last detection call: its arguments and its result
    \* ---- SyncManager
    syncdb,             \* the store's tables the sync manager reads and writes
    nsessions,          \* extended-data sessions started so far (uuid4 per call)
    sync,               \* the last sync-manager call: its arguments and outcome
    \* ---- DataValidator
    market_data,        \* the rows of table market_data
    val,                \* the last validate_symbol_data call: its arguments and result
    \* ---- ConnectionManager
    conn,               \* the manager: _lock, _stats, _last_access_time, the adapter, the clock
    threads,            \* per thread: where it is in its call, what the call returned
    \* ---- PerformanceMonitor
    perf,               \* the monitor: phases, phase_order, custom_metrics, the clock
    pm                  \* the last monitor call: its arguments, return value, state before

bwVars == <<batch_size, auto_flush, bufKeys, buffer, stats, db, scope, nadds, ret>>

gapVars == <<trading_calendar, gapdb, out>>

syncVars == <<syncdb, nsessions, sync>>

valVars == <<market_data, val>>

connVars == <<conn, threads>>

perfVars == <<perf, pm>>

moreVars == <<valVars, connVars, perfVars>>

vars == <<bwVars, gapVars, syncVars, moreVars>>

\* ------------------------------------------------------------------ bounds
MaxAdds == 3        \* add_record calls per behaviour
MaxFailed == 1      \* failed flushes per behaviour
BatchSize == 2      \* the batch_size the writer is constructed with
MaxDay == 7         \* the calendar covers the days 0..MaxDay, day 0 a Monday
MaxRows == 2        \* rows written to the scanned tables per behaviour
MaxScanDay == 2     \* the fan-out scans work on the days 0..MaxScanDay
MaxScanRows == 1    \* rows written before a fan-out scan
MaxStoreRows == 3   \* rows written before a planning pass
MaxSessions == 2    \* extended-data sessions per behaviour
MaxCalUpdates == 2  \* calendar updates per behaviour
MaxGapRun == 6      \* gaps in a run of like gaps of a detection
MaxValRows == 2     \* rows of market_data the validator reads
MaxPerfCalls == 5   \* start_phase, end_phase and reset calls per behaviour
MaxNow == 2         \* clock ticks of a connection-manager behaviour
MaxLockCalls == 3   \* acquire_lock and heartbeat calls per behaviour
SessionTimeout == 1     \* ConnectionManager.session_timeout, in ticks
HeartbeatInterval == 1  \* ConnectionManager.heartbeat_interval, in ticks
LockTimeout == 1        \* ConnectionManager.lock_timeout, in ticks
MaxEnsureCalls == 3     \* ensure_connected calls per behaviour

\* ------------------------------------------------------------------ helpers
Range(s) == {s[i] : i \in 1..Len(s)}

\* ------------------------------------------------------------------ BatchWriter
Tables == {"test_table_a", "test_table_b"}
Ids == {1, 2}
Names == {"test1", "test1_updated"}
Null == "NULL"

\* The columns of each table; "id" is the primary key of both.
TableColumns(table) ==
    IF table = "test_table_a" THEN {"id", "name"} ELSE {"id", "category"}

\* The records a caller hands to add_record: dicts with the table's primary key
\* "id" and the table's other column, which a caller may leave out.
RecordsFor(table) ==
    IF table = "test_table_a"
    THEN {r \in [id : Ids, name : Names] : r.id = 1 \/ r.name = "test1"}
         \cup [id : {1}]
    ELSE [id : {1}, category : {"cat1"}]

\* ret: op and table name the call; data is the record given to add_record (a
\* list of at most one); count is the call's return value (for flush_all and
\* __exit__ the records flushed); results is flush_all's return value; batch
\* holds the records a flush attempted; replaced the rows a flush replaced by
\* rows of other values; faults the tables for which the store raised;
\* body_exc whether the with-block raised and propagates whether the
\* exception leaves the with-statement.
NoRet ==
    [op |-> "none", table |-> "-", data |-> <<>>, count |-> 0, raised |-> FALSE,
     results |-> [t \in {} |-> 0], batch |-> <<>>, replaced |-> {},
     faults |-> {}, body_exc |-> FALSE, propagates |-> FALSE]

\* The writer together with the store it writes to, as one value, so that the
\* methods can call one another.
Writer == [bufKeys |-> bufKeys, buffer |-> buffer, stats |-> stats, db |-> db]

\* self._buffer[table] of a defaultdict(list): reading a missing key creates it.
Touch(keys, table) == IF table \in Range(keys) THEN keys ELSE Append(keys, table)

\* ---- the store (sqlite behind DatabaseManager)
\* One INSERT statement of an executemany: the row it writes holds NULL in the
\* columns the statement does not name; the primary key is "id".
RowOf(sql, p) ==
    [c \in TableColumns(sql.table) |-> IF c \in sql.columns THEN p[c] ELSE Null]

ApplyStmt(rows, sql, p) ==
    LET row == RowOf(sql, p)
        same == {r \in rows : r.id = row.id}
    IN  IF sql.verb = "INSERT OR REPLACE" THEN (rows \ same) \cup {row}
        ELSE IF same = {} THEN rows \cup {row}   \* INSERT OR IGNORE
        ELSE rows

RECURSIVE ApplyAll(_, _, _, _)
ApplyAll(rows, sql, params, n) ==
    IF n = 0 THEN rows
    ELSE ApplyStmt(ApplyAll(rows, sql, params, n - 1), sql, params[n])

\* db_manager.executemany(sql, params_list): the statements run in order; when
\* the store raises, it raises on the last statement, the earlier ones applied.
ExecuteMany(rows, sql, params, dbRaises) ==
    IF dbRaises
    THEN [rows |-> ApplyAll(rows, sql, params, Len(params) - 1), ok |-> FALSE]
    ELSE [rows |-> ApplyAll(rows, sql, params, Len(params)), ok |-> TRUE]

\* with db_manager.transaction(): commit when the block ends, roll back to the
\* rows at entry when it raises.
Transaction(rows, result) == IF result.ok THEN result.rows ELSE rows

\* ---- BatchWriter.flush
FlushSqlIgnore(table, columns) ==
    [verb |-> "INSERT OR IGNORE", table |-> table, columns |-> columns]

FlushSql(table, columns) ==
    [verb |-> "INSERT OR REPLACE", table |-> table, columns |-> columns]

\* columns = list(records[0].keys())
Columns(records) == DOMAIN records[1]

\* tuple(record[col] for col in columns) raises KeyError for a record that
\* lacks one of the columns.
ParamsOk(records, columns) ==
    \A i \in 1..Len(records) : columns \subseteq DOMAIN records[i]

ParamsListReversed(records, columns) ==
    [i \in 1..Len(records) |->
        [c \in columns |-> records[Len(records) + 1 - i][c]]]

ParamsList(records, columns) ==
    [i \in 1..Len(records) |-> [c \in columns |-> records[i][c]]]

FlushFailedDropsBuffer(w, table) ==
    [w EXCEPT !.stats.failed_batches = @ + 1, !.buffer[table] = <<>>]

\* except Exception: failed_batches += 1; the buffer is kept; raise
FlushFailed(w, table) == [w EXCEPT !.stats.failed_batches = @ + 1]

\* the statistics update and buffer clear after a committed batch
FlushDone(w, table, rows, record_count) ==
    [w EXCEPT !.db[table] = rows,
              !.stats.total_records = @ + record_count,
              !.stats.total_batches = @ + 1,
              !.buffer[table] = <<>>]

\* flush(table) for a table name; dbRaises: the store raises inside executemany.
Flush(w, table, dbRaises) ==
    IF table \notin Range(w.bufKeys) \/ w.buffer[table] = <<>>
    THEN [w |-> w, count |-> 0, raised |-> FALSE]
    ELSE
        LET records == w.buffer[table]
            record_count == Len(records)
            columns == Columns(records)
        IN  IF ~ParamsOk(records, columns)
            THEN [w |-> FlushFailed(w, table), count |-> 0, raised |-> TRUE]
            ELSE
                LET sql == FlushSql(table, columns)
                    result == ExecuteMany(w.db[table], sql,
                                          ParamsList(records, columns), dbRaises)
                    rows == Transaction(w.db[table], result)
                IN  IF result.ok
                    THEN [w |-> FlushDone(w, table, rows, record_count),
                          count |-> record_count, raised |-> FALSE]
                    ELSE [w |-> FlushFailed([w EXCEPT !.db[table] = rows], table),
                          count |-> 0, raised |-> TRUE]

\* ---- BatchWriter.flush_all
TryFlushNoCatch(w, table, dbRaises) == Flush(w, table, dbRaises)

\* try: count = self.flush(table) / except Exception: results[table] = 0
TryFlush(w, table, dbRaises) ==
    LET r == Flush(w, table, dbRaises)
    IN  IF r.raised THEN [w |-> r.w, count |-> 0, raised |-> FALSE] ELSE r

\* for table in list(self._buffer.keys()): from the i-th key on. An exception
\* that leaves the loop body ends the loop.
RECURSIVE FlushAllFrom(_, _, _, _, _)
FlushAllFrom(w, keys, i, raisesFor, results) ==
    IF i > Len(keys) THEN [w |-> w, results |-> results, raised |-> FALSE]
    ELSE
        LET r == TryFlush(w, keys[i], keys[i] \in raisesFor)
        IN  IF r.raised
            THEN [w |-> r.w, results |-> results, raised |-> TRUE]
            ELSE FlushAllFrom(r.w, keys, i + 1, raisesFor,
                              results @@ (keys[i] :> r.count))

FlushAll(w, raisesFor) ==
    FlushAllFrom(w, w.bufKeys, 1, raisesFor, [t \in {} |-> 0])

\* ---- BatchWriter.add_record
\* the trigger that fires only on the add that reaches batch_size
AutoFlushDueExactly(buffer_size) == auto_flush /\ buffer_size = batch_size

AutoFlushDueStrict(buffer_size) == auto_flush /\ buffer_size > batch_size

\* if self.auto_flush and buffer_size >= self.batch_size
AutoFlushDue(buffer_size) == auto_flush /\ buffer_size >= batch_size

add_record(w, table, data, dbRaises) ==
    LET keys == Touch(w.bufKeys, table)
        w1 == [w EXCEPT !.bufKeys = keys, !.buffer[table] = Append(@, data)]
        buffer_size == Len(w1.buffer[table])
    IN  IF AutoFlushDue(buffer_size)
        THEN LET r == Flush(w1, table, dbRaises)
             IN  [w |-> r.w, count |-> 0, raised |-> r.raised]
        ELSE [w |-> w1, count |-> buffer_size, raised |-> FALSE]

\* ---- BatchWriter.get_buffer_size / clear_buffer
RECURSIVE SumLen(_, _, _)
SumLen(buf, keys, i) ==
    IF i > Len(keys) THEN 0 ELSE Len(buf[keys[i]]) + SumLen(buf, keys, i + 1)

get_buffer_size(w) == SumLen(w.buffer, w.bufKeys, 1)

clear_buffer_all(w) ==
    [w EXCEPT !.bufKeys = <<>>, !.buffer = [t \in Tables |-> <<>>]]

clear_buffer(w, table) ==
    IF table \in Range(w.bufKeys) THEN [w EXCEPT !.buffer[table] = <<>>] ELSE w

\* ---- BatchWriter.__exit__
ExitSkipsFlushOnException(w, exc, raisesFor) ==
    IF ~exc /\ get_buffer_size(w) > 0
    THEN [w |-> FlushAll(w, raisesFor).w, raised |-> FALSE, propagate |-> exc]
    ELSE [w |-> w, raised |-> FALSE, propagate |-> exc]

\* exc: the with-block ended by an exception. An exception of flush_all is
\* caught and logged; returning False lets exc propagate.
exit(w, exc, raisesFor) ==
    IF get_buffer_size(w) > 0
    THEN [w |-> FlushAll(w, raisesFor).w, raised |-> FALSE, propagate |-> exc]
    ELSE [w |-> w, raised |-> FALSE, propagate |-> exc]

\* ------------------------------------------------------------------ GapDetector
\* Dates. A datetime.date is modelled by its day number (day 0 a Monday) and
\* its ISO text, as the store holds it, by the pair <<week, day of week>>,
\* most significant field first: the store compares texts field by field, as
\* SQLite compares 'YYYY-MM-DD' strings.
Days == 0..MaxDay
ScanDays == 0..MaxScanDay

\* date.weekday(): 0 is Monday, 5 and 6 the weekend
Weekday(d) == d % 7

\* str(date)
DateStr(d) == <<d \div 7, d % 7>>

\* datetime.strptime(text, "%Y-%m-%d").date()
ParseDate(text) == 7 * text[1] + text[2]

\* text comparison of two dates in SQL (date >= ? AND date <= ?)
StrLE(a, b) == a[1] < b[1] \/ (a[1] = b[1] /\ a[2] <= b[2])

\* ORDER BY date over a set of date texts
RECURSIVE OrderByDate(_)
OrderByDate(texts) ==
    IF texts = {} THEN <<>>
    ELSE LET first == CHOOSE x \in texts : \A y \in texts : StrLE(x, y)
         IN  <<first>> \o OrderByDate(texts \ {first})

ParseAll(texts) == [i \in 1..Len(texts) |-> ParseDate(texts[i])]

Symbols == {"000001.SZ", "600000.SH"}
SymbolList == <<"000001.SZ", "600000.SH">>
Freqs == {"1d", "1w"}
None == "None"

\* GapDetector._init_components: the tables a scan supports
supported_tables ==
    [market_data |->
        [date_column |-> "date", frequency_column |-> "frequency",
         description |-> "market data"],
     valuations |->
        [date_column |-> "date", frequency_column |-> None,
         description |-> "valuations"],
     technical_indicators |->
        [date_column |-> "date", frequency_column |-> "frequency",
         description |-> "technical indicators"],
     financials |->
        [date_column |-> "report_date", frequency_column |-> None,
         description |-> "financials"],
     corporate_actions |->
        [date_column |-> "ex_date", frequency_column |-> None,
         description |-> "corporate actions"]]

SupportedNames == DOMAIN supported_tables

\* The published calendars: one row per date and market. The weekday
\* calendar also holds a Saturday session of another market.
CalendarRow(d, market, is_trading) ==
    [date |-> DateStr(d), market |-> market, is_trading |-> is_trading]

WeekdayCalendar ==
    {CalendarRow(d, "CN", IF Weekday(d) < 5 THEN 1 ELSE 0) : d \in Days}
    \cup {CalendarRow(5, "HK", 1)}

EveryDayCalendar == {CalendarRow(d, "CN", 1) : d \in Days}

Calendars == {WeekdayCalendar, EveryDayCalendar, {}}

\* ---- GapDetector._get_trading_days (the query did not raise)
TradingDaysAnyMarket(cal, start_date, end_date) ==
    ParseAll(OrderByDate(
        {r.date : r \in {x \in cal :
            /\ StrLE(DateStr(start_date), x.date)
            /\ StrLE(x.date, DateStr(end_date))
            /\ x.is_trading = 1}}))

get_trading_days(cal, start_date, end_date) ==
    ParseAll(OrderByDate(
        {r.date : r \in {x \in cal :
            /\ StrLE(DateStr(start_date), x.date)
            /\ StrLE(x.date, DateStr(end_date))
            /\ x.market = "CN"
            /\ x.is_trading = 1}}))

\* ---- GapDetector._get_existing_dates; failed: the query raised, which the
\* method answers with an empty list
ExistingDatesAnySymbol(rows, symbol, start_date, end_date, frequency, failed) ==
    IF failed THEN <<>>
    ELSE ParseAll(OrderByDate(
        {r.date : r \in {x \in rows :
            /\ x.frequency = frequency
            /\ StrLE(DateStr(start_date), x.date)
            /\ StrLE(x.date, DateStr(end_date))}}))

\* the stored dates answered although the query raised
ExistingDatesDespiteFailure(rows, symbol, start_date, end_date, frequency, failed) ==
    ParseAll(OrderByDate(
        {r.date : r \in {x \in rows :
            /\ x.symbol = symbol
            /\ x.frequency = frequency
            /\ StrLE(DateStr(start_date), x.date)
            /\ StrLE(x.date, DateStr(end_date))}}))

get_existing_dates(rows, symbol, start_date, end_date, frequency, failed) ==
    IF failed THEN <<>>
    ELSE ParseAll(OrderByDate(
        {r.date : r \in {x \in rows :
            /\ x.symbol = symbol
            /\ x.frequency = frequency
            /\ StrLE(DateStr(start_date), x.date)
            /\ StrLE(x.date, DateStr(end_date))}}))

\* ---- GapDetector._get_existing_table_dates
get_existing_table_dates(rows, symbol, start_date, end_date, date_column, frequency_column, failed) ==
    IF failed THEN <<>>
    ELSE ParseAll(OrderByDate(
        {r[date_column] : r \in {x \in rows :
            /\ x.symbol = symbol
            /\ (frequency_column # None => x[frequency_column] = "1d")
            /\ StrLE(DateStr(start_date), x[date_column])
            /\ StrLE(x[date_column], DateStr(end_date))}}))

\* ---- GapDetector._calculate_gap_severity
SeverityShifted(start_date, end_date) ==
    LET gap_days == (end_date - start_date) + 1
    IN  IF gap_days <= 1 THEN "low"
        ELSE IF gap_days < 3 THEN "medium"
        ELSE IF gap_days < 7 THEN "high"
        ELSE "critical"

calculate_gap_severity(start_date, end_date) ==
    LET gap_days == (end_date - start_date) + 1
    IN  IF gap_days <= 1 THEN "low"
        ELSE IF gap_days <= 3 THEN "medium"
        ELSE IF gap_days <= 7 THEN "high"
        ELSE "critical"

\* ---- GapDetector._detect_date_gaps
\* the gap dict of one run of missing dates (its description text left out)
Gap(symbol, frequency, gap_start, gap_end) ==
    [symbol |-> symbol,
     frequency |-> frequency,
     gap_type |-> "date_missing",
     start_date |-> DateStr(gap_start),
     end_date |-> DateStr(gap_end),
     gap_days |-> (gap_end - gap_start) + 1,
     severity |-> calculate_gap_severity(gap_start, gap_end)]

\* sorted(missing_dates)
RECURSIVE Insert(_, _, _)
Insert(sorted, x, i) ==
    IF i > Len(sorted) THEN Append(sorted, x)
    ELSE IF x < sorted[i]
         THEN SubSeq(sorted, 1, i - 1) \o <<x>> \o SubSeq(sorted, i, Len(sorted))
         ELSE Insert(sorted, x, i + 1)

RECURSIVE Sorted(_)
Sorted(dates) ==
    IF dates = <<>> THEN <<>>
    ELSE Insert(Sorted(SubSeq(dates, 1, Len(dates) - 1)), dates[Len(dates)], 1)

ExtendsGapAcrossWeekend(missing_date, current_gap_end) ==
    missing_date <= current_gap_end + 3

\* missing_date == current_gap_end + timedelta(days=1)
ExtendsGap(missing_date, current_gap_end) == missing_date = current_gap_end + 1

\* the merge loop from the i-th missing date on, a gap being open
RECURSIVE MergeFrom(_, _, _, _, _, _, _)
MergeFrom(symbol, frequency, missing, i, gap_start, gap_end, gaps) ==
    IF i > Len(missing)
    THEN Append(gaps, Gap(symbol, frequency, gap_start, gap_end))
    ELSE IF ExtendsGap(missing[i], gap_end)
         THEN MergeFrom(symbol, frequency, missing, i + 1, gap_start, missing[i], gaps)
         ELSE MergeFrom(symbol, frequency, missing, i + 1, missing[i], missing[i],
                        Append(gaps, Gap(symbol, frequency, gap_start, gap_end)))

detect_date_gaps(symbol, trading_days, existing_dates, frequency) ==
    LET existing_set == Range(existing_dates)
        missing_dates == SelectSeq(trading_days, LAMBDA d : d \notin existing_set)
        missing == Sorted(missing_dates)
    IN  IF missing_dates = <<>> THEN <<>>
        ELSE MergeFrom(symbol, frequency, missing, 2, missing[1], missing[1], <<>>)

\* ---- GapDetector.detect_symbol_gaps
\* fault: "none", "calendar" (the trading-day query raises, and so does the
\* call) or "existing" (the stored-date query raises).
detect_symbol_gaps(cal, rows, symbol, start_date, end_date, frequency, fault) ==
    IF fault = "calendar" THEN [raised |-> TRUE, gaps |-> <<>>]
    ELSE [raised |-> FALSE,
          gaps |-> detect_date_gaps(
              symbol,
              get_trading_days(cal, start_date, end_date),
              get_existing_dates(rows, symbol, start_date, end_date, frequency,
                                 fault = "existing"),
              frequency)]

\* ---- the fan-out scans. A scan unit is the pair <<frequency or table,
\* symbol>>; calFaults are the units during which the trading-day query
\* raises, exFaults those during which the stored-date query raises.
UnitFault(unit, calFaults, exFaults) ==
    IF unit \in calFaults THEN "calendar"
    ELSE IF unit \in exFaults THEN "existing"
    ELSE "none"

\* ---- GapDetector._detect_frequency_gaps
TryDetectSymbolNoCatch(cal, rows, symbol, start_date, end_date, frequency, fault) ==
    detect_symbol_gaps(cal, rows, symbol, start_date, end_date, frequency, fault)

\* try: symbol_gaps = self.detect_symbol_gaps(...) / except Exception: log
TryDetectSymbol(cal, rows, symbol, start_date, end_date, frequency, fault) ==
    LET r == detect_symbol_gaps(cal, rows, symbol, start_date, end_date, frequency, fault)
    IN  IF r.raised THEN [raised |-> FALSE, gaps |-> <<>>] ELSE r

\* for symbol in symbols: from the i-th symbol on
RECURSIVE FrequencyGapsFrom(_, _, _, _, _, _, _, _, _)
FrequencyGapsFrom(cal, rows, symbols, i, start_date, end_date, frequency, faults, acc) ==
    IF i > Len(symbols) THEN acc
    ELSE
        LET r == TryDetectSymbol(cal, rows, symbols[i], start_date, end_date, frequency,
                     UnitFault(<<frequency, symbols[i]>>, faults.cal, faults.ex))
        IN  IF r.raised THEN [acc EXCEPT !.raised = TRUE]
            ELSE FrequencyGapsFrom(cal, rows, symbols, i + 1, start_date, end_date,
                     frequency, faults,
                     IF r.gaps = <<>> THEN acc
                     ELSE [acc EXCEPT !.symbols_with_gaps = @ \cup {symbols[i]},
                                      !.gaps = @ \o r.gaps])

detect_frequency_gaps(cal, rows, symbols, start_date, end_date, frequency, faults) ==
    FrequencyGapsFrom(cal, rows, symbols, 1, start_date, end_date, frequency, faults,
        [raised |-> FALSE, frequency |-> frequency, total_symbols |-> Len(symbols),
         symbols_with_gaps |-> {}, gaps |-> <<>>])

\* ---- GapDetector.detect_all_gaps
\* for frequency in frequencies: from the i-th frequency on
RECURSIVE AllGapsFrom(_, _, _, _, _, _, _, _, _)
AllGapsFrom(cal, rows, symbols, frequencies, i, start_date, end_date, faults, res) ==
    IF i > Len(frequencies) THEN res
    ELSE
        LET fg == detect_frequency_gaps(cal, rows, symbols, start_date, end_date,
                                        frequencies[i], faults)
        IN  IF fg.raised THEN [res EXCEPT !.raised = TRUE]
            ELSE AllGapsFrom(cal, rows, symbols, frequencies, i + 1, start_date,
                     end_date, faults,
                     [res EXCEPT
                        !.gaps_by_frequency = @ @@ (frequencies[i] :> fg),
                        !.summary.total_gaps = @ + Len(fg.gaps),
                        !.summary.symbols_with_gaps =
                            @ + Cardinality(fg.symbols_with_gaps),
                        !.summary.gap_types = @ + Len(fg.gaps)])

\* summary.gap_types counts the gaps of the one type there is, date_missing
detect_all_gaps(cal, rows, start_date, end_date, symbols, frequencies, faults) ==
    AllGapsFrom(cal, rows, symbols, frequencies, 1, start_date, end_date, faults,
        [raised |-> FALSE,
         start_date |-> DateStr(start_date),
         end_date |-> DateStr(end_date),
         total_symbols |-> Len(symbols),
         frequencies |-> frequencies,
         gaps_by_frequency |-> [f \in {} |-> 0],
         summary |-> [total_gaps |-> 0, symbols_with_gaps |-> 0, gap_types |-> 0]])

\* ---- GapDetector._detect_symbol_table_gaps
TableGap(gap, table_name) ==
    [symbol |-> gap.symbol, frequency |-> gap.frequency, gap_type |-> gap.gap_type,
     start_date |-> gap.start_date, end_date |-> gap.end_date,
     gap_days |-> gap.gap_days, severity |-> gap.severity,
     table_name |-> table_name,
     description |-> supported_tables[table_name].description]

detect_symbol_table_gaps(cal, store, table_name, symbol, start_date, end_date, fault) ==
    LET table_config == supported_tables[table_name]
        trading_days == get_trading_days(cal, start_date, end_date)
        existing_dates ==
            get_existing_table_dates(store[table_name], symbol, start_date, end_date,
                table_config.date_column, table_config.frequency_column,
                fault = "existing")
        gaps == detect_date_gaps(symbol, trading_days, existing_dates,
                    IF table_config.frequency_column # None
                    THEN table_config.frequency_column ELSE "1d")
    IN  IF fault = "calendar" THEN [raised |-> TRUE, gaps |-> <<>>]
        ELSE IF trading_days = <<>> THEN [raised |-> FALSE, gaps |-> <<>>]
        ELSE [raised |-> FALSE,
              gaps |-> [k \in 1..Len(gaps) |-> TableGap(gaps[k], table_name)]]

\* ---- GapDetector._detect_table_gaps
TryDetectSymbolTableNoCatch(cal, store, table_name, symbol, start_date, end_date, fault) ==
    detect_symbol_table_gaps(cal, store, table_name, symbol, start_date, end_date, fault)

\* try: symbol_gaps = self._detect_symbol_table_gaps(...) / except Exception: log
TryDetectSymbolTable(cal, store, table_name, symbol, start_date, end_date, fault) ==
    LET r == detect_symbol_table_gaps(cal, store, table_name, symbol, start_date,
                                      end_date, fault)
    IN  IF r.raised THEN [raised |-> FALSE, gaps |-> <<>>] ELSE r

RECURSIVE TableGapsFrom(_, _, _, _, _, _, _, _, _)
TableGapsFrom(cal, store, table_name, symbols, i, start_date, end_date, faults, acc) ==
    IF i > Len(symbols) THEN acc
    ELSE
        LET r == TryDetectSymbolTable(cal, store, table_name, symbols[i], start_date,
                     end_date,
                     UnitFault(<<table_name, symbols[i]>>, faults.cal, faults.ex))
        IN  IF r.raised THEN [raised |-> TRUE, entry |-> acc.entry]
            ELSE TableGapsFrom(cal, store, table_name, symbols, i + 1, start_date,
                     end_date, faults,
                     IF r.gaps = <<>> THEN acc
                     ELSE [acc EXCEPT
                             !.entry.symbols_with_gaps = Append(@, symbols[i]),
                             !.entry.gaps = @ \o r.gaps])

detect_table_gaps(cal, store, table_name, symbols, start_date, end_date, faults) ==
    TableGapsFrom(cal, store, table_name, symbols, 1, start_date, end_date, faults,
        [raised |-> FALSE,
         entry |-> [table_name |-> table_name,
                    description |-> supported_tables[table_name].description,
                    symbols_with_gaps |-> <<>>,
                    gaps |-> <<>>]])

\* ---- GapDetector.detect_all_tables_gaps
\* except Exception as e: the entry of a table whose scan raised
ErrorEntry == [error |-> "error", gaps |-> <<>>, symbols_with_gaps |-> <<>>]

GapSymbols(gaps) == {gaps[k].symbol : k \in 1..Len(gaps)}

\* for table_name in tables: from the i-th table on
RECURSIVE AllTablesFrom(_, _, _, _, _, _, _, _, _)
AllTablesFrom(cal, store, symbols, tables, i, start_date, end_date, faults, res) ==
    IF i > Len(tables) THEN res
    ELSE IF tables[i] \notin SupportedNames
    THEN AllTablesFrom(cal, store, symbols, tables, i + 1, start_date, end_date,
                       faults, res)
    ELSE
        LET r == detect_table_gaps(cal, store, tables[i], symbols, start_date,
                                   end_date, faults)
        IN  AllTablesFrom(cal, store, symbols, tables, i + 1, start_date, end_date,
                faults,
                IF r.raised
                THEN [res EXCEPT !.gaps_by_table = @ @@ (tables[i] :> ErrorEntry)]
                ELSE IF r.entry.gaps = <<>>
                THEN [res EXCEPT !.gaps_by_table = @ @@ (tables[i] :> r.entry)]
                ELSE [res EXCEPT
                        !.gaps_by_table = @ @@ (tables[i] :> r.entry),
                        !.summary.tables_with_gaps = @ + 1,
                        !.summary.total_gaps = @ + Len(r.entry.gaps),
                        !.summary.symbols_with_gaps = @ \cup GapSymbols(r.entry.gaps),
                        !.summary.gap_types = @ + Len(r.entry.gaps)])

detect_all_tables_gaps(cal, store, start_date, end_date, symbols, tables, faults) ==
    AllTablesFrom(cal, store, symbols, tables, 1, start_date, end_date, faults,
        [raised |-> FALSE,
         start_date |-> DateStr(start_date),
         end_date |-> DateStr(end_date),
         symbols_count |-> Len(symbols),
         tables_checked |-> Len(tables),
         gaps_by_table |-> [t \in {} |-> 0],
         summary |-> [total_gaps |-> 0, tables_with_gaps |-> 0,
                      symbols_with_gaps |-> {}, gap_types |-> 0]])


\* ------------------------------------------------------------------ SyncManager
\* A date is the record [year, month, day]; str(date) and date.isoformat()
\* give its ISO text, modelled as the tuple <<year, month, day>>.
Date(y, m, d) == [year |-> y, month |-> m, day |-> d]

IsoStr(date) == <<date.year, date.month, date.day>>

DateLT(a, b) ==
    \/ a.year < b.year
    \/ a.year = b.year /\ a.month < b.month
    \/ a.year = b.year /\ a.month = b.month /\ a.day < b.day

\* the target date of the tests
TestDate == Date(2025, 1, 24)

\* the statuses of a ledger (extended_sync_status) row
Statuses == {"pending", "processing", "completed", "failed"}

\* A ledger row: created_at is kept as the row's age in hours at the time of
\* the calls. The ledger holds one row per symbol, target date and session.
LedgerRow(symbol, target_date, status, session_id, age_hours) ==
    [symbol |-> symbol, sync_type |-> "processing", target_date |-> IsoStr(target_date),
     status |-> status, session_id |-> session_id, age_hours |-> age_hours]

\* A financials row: created_at is kept as the row's age in days.
FinancialsRow(symbol, report_date, age_days) ==
    [symbol |-> symbol, report_date |-> report_date, report_type |-> "Q4",
     age_days |-> age_days]

DatedRow(symbol, date) == [symbol |-> symbol, date |-> date]

SyncTables ==
    {"extended_sync_status", "financials", "valuations", "technical_indicators",
     "stocks", "trading_calendar"}

EmptyStore == [t \in SyncTables |-> {}]

\* INSERT OR REPLACE: the row takes the place of the rows with its key
Upsert(rows, row, key) ==
    {r \in rows : \E c \in key : r[c] # row[c]} \cup {row}

LedgerKey == {"symbol", "sync_type", "target_date", "session_id"}

\* ---- SyncManager._get_extended_data_symbols_to_process
\* a financials row counts while created_at > datetime('now', '-30 days')
FinancialsFreshDays == 30

\* DELETE FROM extended_sync_status WHERE target_date = ? AND status = 'pending'
DeletePending(ledger, target_date) ==
    {r \in ledger : ~(r.target_date = IsoStr(target_date) /\ r.status = "pending")}

CompletedSymbolsAnyDate(ledger, target_date) ==
    {r.symbol : r \in {x \in ledger : x.status = "completed"}}

\* the completed query that also counts the rows still in processing
CompletedOrProcessingSymbols(ledger, target_date) ==
    {r.symbol : r \in {x \in ledger : /\ x.target_date = IsoStr(target_date)
                                       /\ x.status \in {"completed", "processing"}}}

CompletedSymbols(ledger, target_date) ==
    {r.symbol : r \in {x \in ledger : /\ x.target_date = IsoStr(target_date)
                                       /\ x.status = "completed"}}

ReportDate(target_date) == <<target_date.year, 12, 31>>

FinancialSymbols(financials, symbols, target_date) ==
    {r.symbol : r \in {x \in financials :
        /\ x.symbol \in Range(symbols)
        /\ x.report_date = ReportDate(target_date)
        /\ x.age_days < FinancialsFreshDays}}

SymbolsIn(rows, symbols) ==
    {r.symbol : r \in {x \in rows : x.symbol \in Range(symbols)}}

\* the loop over symbols, from the i-th on
RECURSIVE NeedingFrom(_, _, _, _, _, _)
NeedingFrom(i, symbols, completed_symbols, financial_symbols, valuation_symbols, indicator_symbols) ==
    IF i > Len(symbols) THEN <<>>
    ELSE LET symbol == symbols[i]
             rest == NeedingFrom(i + 1, symbols, completed_symbols, financial_symbols,
                                 valuation_symbols, indicator_symbols)
         IN  IF symbol \in completed_symbols THEN rest
             ELSE IF \/ symbol \notin financial_symbols
                     \/ symbol \notin valuation_symbols
                     \/ symbol \notin indicator_symbols
                  THEN <<symbol>> \o rest
                  ELSE rest

\* fault names the statement on which the store raises ("none": no failure);
\* the statements before it have taken effect. The except clause logs and
\* re-raises.
PlanFaults == {"none", "delete", "completed", "financials", "valuations", "indicators"}

get_extended_data_symbols_to_process(store, symbols, target_date, fault) ==
    IF fault = "delete"
    THEN [raised |-> TRUE, store |-> store, result |-> <<>>]
    ELSE LET cleaned == [store EXCEPT !.extended_sync_status = DeletePending(@, target_date)]
         IN  IF fault = "completed"
             THEN [raised |-> TRUE, store |-> cleaned, result |-> <<>>]
             ELSE IF symbols = <<>>
             THEN [raised |-> FALSE, store |-> cleaned, result |-> <<>>]
             ELSE IF fault # "none"
             THEN [raised |-> TRUE, store |-> cleaned, result |-> <<>>]
             ELSE [raised |-> FALSE, store |-> cleaned,
                   result |-> NeedingFrom(1, symbols,
                        CompletedSymbols(cleaned.extended_sync_status, target_date),
                        FinancialSymbols(cleaned.financials, symbols, target_date),
                        SymbolsIn(cleaned.valuations, symbols),
                        SymbolsIn(cleaned.technical_indicators, symbols))]

\* ---- SyncManager._sync_extended_data
\* provider[symbol] tells which extended data the provider has for the symbol
\* (a dict with "data"): fin for get_fundamentals, val for get_valuation_data.
\* fail_at is the index of the symbol on which get_fundamentals raises (0: on
\* none); nothing in _sync_extended_data catches it. writes lists the ledger
\* statuses written, calls the provider requests made, in order.
NoExtResult(session_id) ==
    [financials_count |-> 0, valuations_count |-> 0, indicators_count |-> 0,
     processed_symbols |-> 0, failed_symbols |-> 0, session_id |-> session_id]

\* the status query that never finds a row
ExistingStatusNone(ledger, symbol, target_date, session_id) == {}

ExistingStatus(ledger, symbol, target_date, session_id) ==
    {r.status : r \in {x \in ledger : /\ x.symbol = symbol
                                       /\ x.target_date = IsoStr(target_date)
                                       /\ x.session_id = session_id}}

\* UPDATE extended_sync_status SET status = 'completed' WHERE symbol = ? AND
\* target_date = ? AND session_id = ?
MarkCompleted(ledger, symbol, target_date, session_id) ==
    {IF /\ r.symbol = symbol
        /\ r.target_date = IsoStr(target_date)
        /\ r.session_id = session_id
     THEN [r EXCEPT !.status = "completed", !.age_hours = 0]
     ELSE r : r \in ledger}

\* the first ledger write of a symbol: INSERT OR REPLACE ... 'processing'
MarkStarted(store, symbol, target_date, session_id) ==
    [store EXCEPT !.extended_sync_status =
        Upsert(@, LedgerRow(symbol, target_date, "processing", session_id, 0), LedgerKey)]

\* the inserts of one symbol's data and its completion mark
StoreSymbolData(store, symbol, target_date, session_id, has) ==
    [store EXCEPT
        !.financials =
            IF has.fin
            THEN Upsert(@, FinancialsRow(symbol, ReportDate(target_date), 0),
                        {"symbol", "report_date", "report_type"})
            ELSE @,
        !.valuations =
            IF has.val THEN @ \cup {DatedRow(symbol, IsoStr(target_date))} ELSE @,
        !.technical_indicators = @ \cup {DatedRow(symbol, IsoStr(target_date))},
        !.extended_sync_status = MarkCompleted(@, symbol, target_date, session_id)]

RECURSIVE SyncExtendedFrom(_, _, _, _, _, _, _)
SyncExtendedFrom(i, acc, symbols, target_date, session_id, provider, fail_at) ==
    IF i > Len(symbols) THEN acc
    ELSE LET symbol == symbols[i]
         IN  IF "completed" \in ExistingStatus(acc.store.extended_sync_status,
                                               symbol, target_date, session_id)
             THEN SyncExtendedFrom(i + 1,
                    [acc EXCEPT !.result.processed_symbols = @ + 1],
                    symbols, target_date, session_id, provider, fail_at)
             ELSE LET started ==
                        [acc EXCEPT
                            !.store = MarkStarted(@, symbol, target_date, session_id),
                            !.writes = Append(@, <<symbol, "processing">>),
                            !.calls = Append(@, <<"get_fundamentals", symbol>>)]
                  IN  IF fail_at = i
                      THEN [started EXCEPT !.raised = TRUE]
                      ELSE SyncExtendedFrom(i + 1,
                            [started EXCEPT
                                !.store = StoreSymbolData(@, symbol, target_date,
                                                          session_id, provider[symbol]),
                                !.writes = Append(@, <<symbol, "completed">>),
                                !.calls = Append(@, <<"get_valuation_data", symbol>>),
                                !.result.financials_count =
                                    IF provider[symbol].fin THEN @ + 1 ELSE @,
                                !.result.valuations_count =
                                    IF provider[symbol].val THEN @ + 1 ELSE @,
                                !.result.indicators_count = @ + 1,
                                !.result.processed_symbols = @ + 1],
                            symbols, target_date, session_id, provider, fail_at)

sync_extended_data(store, symbols, target_date, session_id, provider, fail_at) ==
    SyncExtendedFrom(1,
        [raised |-> FALSE, store |-> store, result |-> NoExtResult(session_id),
         writes |-> <<>>, calls |-> <<>>],
        symbols, target_date, session_id, provider, fail_at)


\* ---- SyncManager._update_trading_calendar
ParseIso(text) == Date(text[1], text[2], text[3])

\* text order of ISO dates, as MIN(date) and MAX(date) compare them
IsoLE(a, b) == a = b \/ DateLT(ParseIso(a), ParseIso(b))

MinDate(rows) == CHOOSE d \in {r.date : r \in rows} : \A r \in rows : IsoLE(d, r.date)

MaxDate(rows) == CHOOSE d \in {r.date : r \in rows} : \A r \in rows : IsoLE(r.date, d)

\* SELECT MIN(date), MAX(date), COUNT(*) FROM trading_calendar
ExistingRange(rows) ==
    IF rows = {}
    THEN [min_date |-> None, max_date |-> None, count |-> 0]
    ELSE [min_date |-> MinDate(rows), max_date |-> MaxDate(rows),
          count |-> Cardinality(rows)]

\* What the provider serves for a year: the records of its first and last day,
\* the one under the key trade_date, the other under the key date.
YearRecords(year) ==
    <<[trade_date |-> <<year, 1, 1>>], [date |-> <<year, 12, 31>>, is_trading |-> 0]>>

\* record.get("trade_date", record.get("date")), "CN", record.get("is_trading", 1)
CalendarRowOf(record) ==
    [date |-> IF "trade_date" \in DOMAIN record THEN record.trade_date ELSE record.date,
     market |-> "CN",
     is_trading |-> IF "is_trading" \in DOMAIN record THEN record.is_trading ELSE 1]

RECURSIVE InsertCalendar(_, _, _)
InsertCalendar(rows, records, i) ==
    IF i > Len(records) THEN rows
    ELSE InsertCalendar(Upsert(rows, CalendarRowOf(records[i]), {"date", "market"}),
                        records, i + 1)

YearsUnfiltered(years, existing_range) == years

\* years_to_update: the needed years outside [existing_min.year, existing_max.year]
YearsOutside(years, existing_range) ==
    SelectSeq(years, LAMBDA y : \/ y < ParseIso(existing_range.min_date).year
                                \/ y > ParseIso(existing_range.max_date).year)

\* The download loop from the i-th year on. serves[year] is the provider's
\* answer for the year: "list" (the records), "dict" (the records under "data"),
\* "none" (nothing) or "raise".
RECURSIVE UpdateYearsFrom(_, _, _, _)
UpdateYearsFrom(i, acc, years, serves) ==
    IF i > Len(years) THEN acc
    ELSE LET year == years[i]
             asked == [acc EXCEPT !.calls = Append(@, <<"get_trade_calendar", year>>)]
         IN  IF serves[year] = "raise" THEN [asked EXCEPT !.raised = TRUE]
             ELSE IF serves[year] = "none"
             THEN UpdateYearsFrom(i + 1, asked, years, serves)
             ELSE UpdateYearsFrom(i + 1,
                    [asked EXCEPT
                        !.store.trading_calendar = InsertCalendar(@, YearRecords(year), 1),
                        !.total_inserted = @ + Len(YearRecords(year))],
                    years, serves)

\* The final SELECT finds MIN(date) NULL in a calendar that is still empty, and
\* final_range["min_date"][:4] raises; start_year and end_year are the first
\* four characters of the dates' text.
update_trading_calendar(store, target_date, serves) ==
    LET existing_range == ExistingRange(store.trading_calendar)
        needed == <<target_date.year - 1, target_date.year, target_date.year + 1>>
        years_to_update ==
            IF existing_range.count > 0
            THEN YearsOutside(needed, existing_range)
            ELSE needed
    IN  IF existing_range.count > 0 /\ years_to_update = <<>>
        THEN [raised |-> FALSE, store |-> store, calls |-> <<>>,
              result |-> [status |-> "skipped",
                          start_year |-> ParseIso(existing_range.min_date).year,
                          end_year |-> ParseIso(existing_range.max_date).year,
                          updated_records |-> 0,
                          total_records |-> existing_range.count]]
        ELSE LET done == UpdateYearsFrom(1,
                            [raised |-> FALSE, store |-> store, calls |-> <<>>,
                             total_inserted |-> 0],
                            years_to_update, serves)
                 final_range == ExistingRange(done.store.trading_calendar)
             IN  [raised |-> done.raised \/ final_range.count = 0, store |-> done.store, calls |-> done.calls,
                  result |->
                    IF done.raised \/ final_range.count = 0 THEN <<>>
                    ELSE [status |-> "completed",
                          start_year |-> final_range.min_date[1],
                          end_year |-> final_range.max_date[1],
                          updated_records |-> done.total_inserted,
                          total_records |-> final_range.count]]

\* ---- SyncManager._update_stock_list
\* stock_info is the provider's answer: "raise", "none" or the number of stocks
update_stock_list(stock_info) ==
    IF stock_info = "raise" THEN [raised |-> TRUE, result |-> <<>>]
    ELSE LET n == IF stock_info = "none" THEN 0 ELSE 3
         IN  [raised |-> FALSE,
              result |-> [status |-> "completed", total_stocks |-> n,
                          new_stocks |-> n, updated_stocks |-> 0]]

\* ---- SyncManager._auto_fix_gaps
max_fixes == 10

\* a stocks row without list_date has NoListDate there
NoListDate == <<>>

StockRow(symbol, list_date) ==
    [symbol |-> symbol, list_date |-> list_date, status |-> "active"]

\* SELECT list_date, status FROM stocks WHERE symbol = ?
StockInfo(stocks, symbol) == {r \in stocks : r.symbol = symbol}

\* all_gaps: the gap lists of gaps_by_frequency, in the dict's order
RECURSIVE AllGaps(_)
AllGaps(gaps_by_frequency) ==
    IF gaps_by_frequency = <<>> THEN <<>>
    ELSE Head(gaps_by_frequency)[2] \o AllGaps(Tail(gaps_by_frequency))

NoFixResult(total_gaps) ==
    [total_gaps |-> total_gaps, attempted_fixes |-> 0, successful_fixes |-> 0,
     failed_fixes |-> 0, skipped_fixes |-> 0]

\* gap_start_date < list_date, tested when the stock has a list_date
GapPredatesListing(gap, stock_info) ==
    /\ stock_info.list_date # NoListDate
    /\ DateLT(ParseIso(gap.start_date), ParseIso(stock_info.list_date))

FixLimitReachedLate(fixes_attempted) == fixes_attempted > max_fixes

\* if fixes_attempted >= max_fixes: break
FixLimitReached(fixes_attempted) == fixes_attempted >= max_fixes

\* The loop over all_gaps from the i-th gap on (the detector's gaps all have a
\* symbol, a start and an end). daily is the provider's answer to
\* get_daily_data, "data" or "empty"; fail_call is the number of the request
\* that raises (0: none does). engine is the processing engine's outcome:
\* "records", "nothing" or "raise" (caught and counted as a failed fix).
RECURSIVE FixFrom(_, _, _, _, _, _, _)
FixFrom(i, acc, all_gaps, stocks, daily, fail_call, engine) ==
    IF i > Len(all_gaps) \/ FixLimitReached(acc.fixes_attempted) THEN acc
    ELSE LET gap == all_gaps[i]
             info == StockInfo(stocks, gap.symbol)
             next(a) == FixFrom(i + 1, a, all_gaps, stocks, daily, fail_call, engine)
         IN  IF gap.frequency # "1d" THEN next(acc)
             ELSE IF info = {} THEN next(acc)
             ELSE IF GapPredatesListing(gap, CHOOSE r \in info : TRUE)
             THEN next([acc EXCEPT !.result.skipped_fixes = @ + 1])
             ELSE LET asked ==
                        [acc EXCEPT
                            !.result.attempted_fixes = @ + 1,
                            !.fixes_attempted = @ + 1,
                            !.calls = Append(@, <<"get_daily_data", gap.symbol,
                                                  gap.start_date, gap.end_date>>)]
                  IN  IF asked.fixes_attempted = fail_call
                      THEN [asked EXCEPT !.raised = TRUE]
                      ELSE IF daily = "data" /\ engine = "records"
                      THEN next([asked EXCEPT !.result.successful_fixes = @ + 1])
                      ELSE next([asked EXCEPT !.result.failed_fixes = @ + 1])

auto_fix_gaps(gap_result, stocks, daily, fail_call, engine) ==
    FixFrom(1,
        [raised |-> FALSE, result |-> NoFixResult(gap_result.summary.total_gaps),
         fixes_attempted |-> 0, calls |-> <<>>],
        AllGaps(gap_result.gaps_by_frequency), stocks, daily, fail_call, engine)

\* ---- SyncManager.run_full_sync
\* the absent target date (None)
NoDate == Date(0, 0, 0)

\* datetime.now().date()
Today == Date(2026, 11, 5)

DefaultSymbols == <<"000001.SZ", "000002.SZ", "600000.SS", "600036.SS">>

\* SELECT symbol FROM stocks WHERE status = 'active' ORDER BY symbol
SymbolOrder == <<"000001.SZ", "000002.SZ", "600000.SH", "600000.SS", "600036.SS">>

get_active_stocks_from_db(stocks) ==
    SelectSeq(SymbolOrder,
              LAMBDA s : \E r \in stocks : r.symbol = s /\ r.status = "active")

NoSummary == [total_phases |-> 0, successful_phases |-> 0, failed_phases |-> 0]

Failed(e) == [status |-> "failed", error |-> e]

Completed(r) == [status |-> "completed", result |-> r]

\* A run in progress: the store, the provider requests (calls) and the
\* sub-operations entered with the date handed to them (ran) so far, and
\* full_result's phases and summary.
\* env gives the behaviour of the collaborators during the run:
\*   serves        the provider's trade calendars, by year
\*   stock_info    the provider's stock list: "raise", "none" or "list"
\*   incremental   sync_all_symbols: "ok" or "raise"
\*   plan_fault    the statement of the planning pass on which the store raises
\*   provider, fail_at   the extended data, as in sync_extended_data
\*   detect, detected   detect_all_gaps: "ok" or "raise", and what it returns
\*   daily, fail_call, engine   the gap repair, as in auto_fix_gaps
\*   validation    validate_all_data: "ok" or "raise"

\* F of the value of e: the steps of a run follow one another, each starting
\* from the outcome of the one before
Then(e, F(_)) == CHOOSE r \in {F(x) : x \in {e}} : TRUE

\* phase 0: the trading calendar and the stock list, under one try
BaseDataUpdate(run, target_date, env) ==
    Then(update_trading_calendar(run.store, target_date, env.serves), LAMBDA cal :
    LET r1 == [run EXCEPT !.store = cal.store, !.calls = @ \o cal.calls,
                          !.ran = Append(@, <<"calendar_update", target_date>>)]
        failed(r) == [r EXCEPT !.phases = ("base_data_update" :> [error |-> "error"]) @@ @,
                               !.summary.total_phases = @ + 1,
                               !.summary.failed_phases = @ + 1]
    IN  IF cal.raised THEN failed(r1)
        ELSE LET r2 == [r1 EXCEPT
                            !.phases = ("calendar_update" :> cal.result) @@ @,
                            !.summary.total_phases = @ + 1,
                            !.summary.successful_phases = @ + 1,
                            !.calls = Append(@, <<"get_stock_info">>),
                            !.ran = Append(@, <<"stock_list_update", target_date>>)]
                 stock == update_stock_list(env.stock_info)
             IN  IF stock.raised THEN failed(r2)
                 ELSE [r2 EXCEPT
                        !.phases = ("stock_list_update" :> stock.result) @@ @,
                        !.summary.total_phases = @ + 1,
                        !.summary.successful_phases = @ + 1])

IncrementalPhaseNoCatch(run, target_date, symbols, env) ==
    [run EXCEPT !.calls = Append(@, <<"sync_all_symbols", symbols>>),
                !.ran = Append(@, <<"incremental_sync", target_date>>),
                !.raised = env.incremental = "raise",
                !.summary.total_phases = @ + 1]

\* phase 1: incremental sync of the market data
IncrementalPhase(run, target_date, symbols, env) ==
    LET r1 == [run EXCEPT !.calls = Append(@, <<"sync_all_symbols", symbols>>),
                          !.ran = Append(@, <<"incremental_sync", target_date>>)]
        r2 == IF env.incremental = "raise"
              THEN [r1 EXCEPT !.phases = ("incremental_sync" :> Failed("error")) @@ @,
                              !.summary.failed_phases = @ + 1]
              ELSE [r1 EXCEPT !.phases = ("incremental_sync" :> Completed("synced")) @@ @,
                              !.summary.successful_phases = @ + 1]
    IN  [r2 EXCEPT !.summary.total_phases = @ + 1]

\* phase 2 after the planning pass: skipped without symbols to process
ExtendedPhaseAlways(run, target_date, to_process, env) ==
    Then(sync_extended_data(run.store, to_process, target_date,
                            run.nsessions + 1, env.provider, env.fail_at), LAMBDA ext :
    LET r1 == [run EXCEPT !.store = ext.store, !.nsessions = @ + 1,
                          !.calls = @ \o ext.calls, !.writes = @ \o ext.writes,
                          !.ran = Append(@, <<"extended_data_sync", target_date>>)]
        r2 == IF ext.raised
              THEN [r1 EXCEPT !.phases = ("extended_data_sync" :> Failed("error")) @@ @,
                              !.summary.failed_phases = @ + 1]
              ELSE [r1 EXCEPT !.phases = ("extended_data_sync" :> Completed(ext.result)) @@ @,
                              !.summary.successful_phases = @ + 1]
    IN  [r2 EXCEPT !.summary.total_phases = @ + 1])

ExtendedPhase(run, target_date, to_process, env) ==
    IF Len(to_process) = 0
    THEN [run EXCEPT
            !.phases = ("extended_data_sync" :>
                            [status |-> "skipped", result |-> "nothing to process"]) @@ @,
            !.summary.successful_phases = @ + 1,
            !.summary.total_phases = @ + 1]
    ELSE ExtendedPhaseAlways(run, target_date, to_process, env)

\* phase 3: gap detection, and the repair of the gaps found, under one try.
\* The entry is set completed and counted before the repair starts; a repair
\* that raises sets it failed and counts a failed phase as well.
GapPhase(run, target_date, symbols, env) ==
    LET r0 == [run EXCEPT !.ran = Append(@, <<"gap_detection", target_date>>)]
        failed(r) == [r EXCEPT !.phases = ("gap_detection" :> Failed("error")) @@ @,
                               !.summary.failed_phases = @ + 1]
        r1 == [r0 EXCEPT
                !.phases = ("gap_detection" :> Completed(env.detected)) @@ @,
                !.summary.successful_phases = @ + 1]
        r2 == IF env.detect = "raise" THEN failed(r0)
              ELSE IF run.enable_auto_gap_fix /\ env.detected.summary.total_gaps > 0
              THEN LET fix == auto_fix_gaps(env.detected, r1.store.stocks, env.daily,
                                            env.fail_call, env.engine)
                       r3 == [r1 EXCEPT !.calls = @ \o fix.calls,
                                        !.ran = Append(@, <<"gap_fix", target_date>>)]
                   IN  IF fix.raised THEN failed(r3)
                       ELSE [r3 EXCEPT
                                !.phases = ("gap_fix" :> Completed(fix.result)) @@ @]
              ELSE r1
    IN  [r2 EXCEPT !.summary.total_phases = @ + 1]

\* phase 4: validation, when enabled
ValidationPhase(run, target_date, symbols, env) ==
    IF ~run.enable_validation THEN run
    ELSE LET r1 == [run EXCEPT !.ran = Append(@, <<"validation", target_date>>)]
             r2 == IF env.validation = "raise"
                   THEN [r1 EXCEPT !.phases = ("validation" :> Failed("error")) @@ @,
                                   !.summary.failed_phases = @ + 1]
                   ELSE [r1 EXCEPT !.phases = ("validation" :> Completed("validated")) @@ @,
                                   !.summary.successful_phases = @ + 1]
         IN  [r2 EXCEPT !.summary.total_phases = @ + 1]

FromPlanningSwallows(run, target_date, symbols, env) ==
    Then(get_extended_data_symbols_to_process(run.store, symbols, target_date,
                                              env.plan_fault), LAMBDA plan :
    Then([run EXCEPT !.store = plan.store,
                     !.ran = Append(@, <<"planning", target_date>>)], LAMBDA r1 :
    Then(ExtendedPhase(r1, target_date, plan.result, env), LAMBDA r2 :
    Then(GapPhase(r2, target_date, symbols, env), LAMBDA r3 :
    ValidationPhase(r3, target_date, symbols, env)))))

\* the phases from the planning pass on; a planning pass that raises ends the
\* run: the outer except clause logs and re-raises
FromPlanning(run, target_date, symbols, env) ==
    Then(get_extended_data_symbols_to_process(run.store, symbols, target_date,
                                              env.plan_fault), LAMBDA plan :
    Then([run EXCEPT !.store = plan.store,
                     !.ran = Append(@, <<"planning", target_date>>)], LAMBDA r1 :
    IF plan.raised THEN [r1 EXCEPT !.raised = TRUE]
    ELSE Then(ExtendedPhase(r1, target_date, plan.result, env), LAMBDA r2 :
         Then(GapPhase(r2, target_date, symbols, env), LAMBDA r3 :
         ValidationPhase(r3, target_date, symbols, env)))))

KeepsFutureDate(target_date) == target_date

\* a target date after today is replaced by date(2025, 1, 24)
EffectiveDate(target_date) ==
    IF DateLT(Today, target_date) THEN Date(2025, 1, 24) ELSE target_date

DefaultsToToday(target_date) == FALSE

\* if not target_date: raise ValidationError
RejectsDate(target_date) == target_date = NoDate

\* config is [enable_auto_gap_fix, enable_validation]. The result is what the
\* body returns or, raised being TRUE, the exception it leaves with.
run_full_sync(store, sessions, config, target_date, symbols, env) ==
    LET start == [raised |-> FALSE, error |-> "none", store |-> store,
                  nsessions |-> sessions, calls |-> <<>>, writes |-> <<>>, ran |-> <<>>,
                  enable_auto_gap_fix |-> config.enable_auto_gap_fix,
                  enable_validation |-> config.enable_validation,
                  target_date |-> <<>>, phases |-> <<>>, summary |-> NoSummary]
        date == EffectiveDate(IF target_date = NoDate THEN Today ELSE target_date)
        listed(r0) == IF symbols = <<>>
                      THEN get_active_stocks_from_db(r0.store.stocks)
                      ELSE symbols
        syms(r0) == IF listed(r0) = <<>> THEN DefaultSymbols ELSE listed(r0)
    IN  IF RejectsDate(target_date)
        THEN [start EXCEPT !.raised = TRUE, !.error = "ValidationError"]
        ELSE Then(BaseDataUpdate([start EXCEPT !.target_date = IsoStr(date)],
                                 date, env), LAMBDA r0 :
             Then(IncrementalPhase(r0, date, syms(r0), env), LAMBDA r1 :
             Then(IF r1.raised THEN r1 ELSE FromPlanning(r1, date, syms(r0), env),
                  LAMBDA r2 :
             IF r2.raised THEN [r2 EXCEPT !.error = "Exception"] ELSE r2)))

\* @unified_error_handler(return_dict=True): the caller gets a dict, with the
\* body's result under "data" or, the body having raised, success False
unified_error_handler(run) ==
    IF run.raised
    THEN [success |-> FALSE, error |-> run.error]
    ELSE [success |-> TRUE,
          data |-> [target_date |-> run.target_date, phases |-> run.phases,
                    summary |-> run.summary]]

\* ================================================================ DataValidator
\* simtradedata/sync/validator.py.  A nullable column value is <<>> for
\* NULL / None and <<v>> for the value v; prices, volumes and scores are
\* integers, so float() is exact.

min_data_quality == 60          \* validation.min_data_quality

max_price_change_pct == 20      \* validation.max_price_change_pct

min_volume_threshold == 100     \* validation.min_volume_threshold

NoValue == <<>>

Some(v) == <<v>>

\* "field in record and record[field] is not None"
Present(record, field) == field \in DOMAIN record /\ record[field] # NoValue

\* float(record[field])
Num(record, field) == record[field][1]

\* record.get("trade_date", "")
TradeDateOf(record) == IF "trade_date" \in DOMAIN record THEN record.trade_date ELSE ""

Issue(issue_type, record) == [issue_type |-> issue_type, trade_date |-> TradeDateOf(record)]

required_fields == <<"symbol", "trade_date", "open", "high", "low", "close", "volume">>

\* 1. one missing_field issue per required field that is absent or None
MissingFieldIssues(record) ==
    LET missing == SelectSeq(required_fields, LAMBDA f : ~Present(record, f))
    IN  [i \in 1..Len(missing) |->
            [issue_type |-> "missing_field", field |-> missing[i],
             trade_date |-> TradeDateOf(record)]]

\* 2. the price checks, made only when the four prices are all present
PriceIssues(record) ==
    IF \A f \in {"open", "high", "low", "close"} : Present(record, f)
    THEN LET open_price == Num(record, "open")
             high_price == Num(record, "high")
             low_price == Num(record, "low")
             close_price == Num(record, "close")
         IN  (IF \E price \in {open_price, high_price, low_price, close_price} : price <= 0
              THEN <<Issue("invalid_price", record)>> ELSE <<>>)
             \o (IF high_price < low_price
                 THEN <<Issue("price_logic_error", record)>> ELSE <<>>)
             \o (IF ~(low_price <= open_price /\ open_price <= high_price)
                 THEN <<Issue("price_logic_error", record)>> ELSE <<>>)
             \o (IF ~(low_price <= close_price /\ close_price <= high_price)
                 THEN <<Issue("price_logic_error", record)>> ELSE <<>>)
    ELSE <<>>

\* 3. the volume checks
VolumeIssues(record) ==
    IF Present(record, "volume")
    THEN IF Num(record, "volume") < 0 THEN <<Issue("invalid_volume", record)>>
         ELSE IF Num(record, "volume") < min_volume_threshold
              THEN <<Issue("low_volume", record)>>
              ELSE <<>>
    ELSE <<>>

\* 4. the quality check
QualityIssues(record) ==
    IF Present(record, "quality_score") /\ Num(record, "quality_score") < min_data_quality
    THEN <<Issue("low_quality", record)>>
    ELSE <<>>

\* abs((close - preclose) / preclose * 100) > max_price_change_pct, for preclose > 0
ExceedsCeiling(close_price, preclose) ==
    LET diff == IF close_price >= preclose THEN close_price - preclose
                ELSE preclose - close_price
    IN  diff * 100 > max_price_change_pct * preclose

\* 5. the price-change check: it reads the keys "close" and "preclose"
ChangeIssues(record) ==
    IF Present(record, "close") /\ Present(record, "preclose")
    THEN IF Num(record, "preclose") > 0
            /\ ExceedsCeiling(Num(record, "close"), Num(record, "preclose"))
         THEN <<Issue("extreme_change", record)>>
         ELSE <<>>
    ELSE <<>>

validate_record(record) ==
    MissingFieldIssues(record) \o PriceIssues(record) \o VolumeIssues(record)
        \o QualityIssues(record) \o ChangeIssues(record)

\* the dict of one fetched row: the selected columns under their names in the
\* SELECT list (date as trade_date; the previous close is column prev_close)
FetchedRecord(row) ==
    [symbol |-> Some(row.symbol), trade_date |-> Some(row.date),
     frequency |-> Some(row.frequency), open |-> row.open, high |-> row.high,
     low |-> row.low, close |-> row.close, volume |-> row.volume,
     prev_close |-> row.prev_close, quality_score |-> row.quality_score]

\* the rows of the symbol and frequency dated d..end_date, ORDER BY date
RECURSIVE FetchFrom(_, _, _, _, _)
FetchFrom(rows, symbol, frequency, d, end_date) ==
    IF d > end_date THEN <<>>
    ELSE LET hit == {r \in rows : r.symbol = symbol /\ r.frequency = frequency /\ r.date = d}
         IN  (IF hit = {} THEN <<>> ELSE <<FetchedRecord(CHOOSE r \in hit : TRUE)>>)
             \o FetchFrom(rows, symbol, frequency, d + 1, end_date)

get_symbol_data(rows, symbol, start_date, end_date, frequency) ==
    FetchFrom(rows, symbol, frequency, start_date, end_date)

\* the counting of one record that adds every issue to invalid_records
CountRecordPerIssue(result, issues) ==
    IF issues # <<>>
    THEN [result EXCEPT !.invalid_records = @ + Len(issues), !.issues = @ \o issues]
    ELSE [result EXCEPT !.valid_records = @ + 1]

\* the counting of one record, given the issues _validate_record found
CountRecord(result, issues) ==
    IF issues # <<>>
    THEN [result EXCEPT !.invalid_records = @ + 1, !.issues = @ \o issues]
    ELSE [result EXCEPT !.valid_records = @ + 1]

\* the loop over the fetched records
RECURSIVE ValidateFrom(_, _, _)
ValidateFrom(i, data_records, result) ==
    IF i > Len(data_records) THEN result
    ELSE ValidateFrom(i + 1, data_records,
            CountRecord(result, validate_record(data_records[i])))

validate_symbol_data(rows, symbol, start_date, end_date, frequency) ==
    LET data_records == get_symbol_data(rows, symbol, start_date, end_date, frequency)
    IN  ValidateFrom(1, data_records,
            [symbol |-> symbol, frequency |-> frequency,
             total_records |-> Len(data_records), valid_records |-> 0,
             invalid_records |-> 0, issues |-> <<>>])

IssueTypes ==
    {"missing_field", "invalid_price", "price_logic_error", "invalid_volume",
     "low_volume", "low_quality", "extreme_change", "validation_error"}

\* result["issue_types"][issue["issue_type"]] += 1 for each issue of the list
RECURSIVE TallyFrom(_, _, _)
TallyFrom(i, issues, issue_types) ==
    IF i > Len(issues) THEN issue_types
    ELSE TallyFrom(i + 1, issues,
            [issue_types EXCEPT ![issues[i].issue_type] = @ + 1])

\* the loop over the symbols of _validate_frequency_data
RECURSIVE FrequencyFrom(_, _, _, _, _, _, _)
FrequencyFrom(i, rows, symbols, start_date, end_date, frequency, result) ==
    IF i > Len(symbols) THEN result
    ELSE LET symbol_result ==
                validate_symbol_data(rows, symbols[i], start_date, end_date, frequency)
         IN  FrequencyFrom(i + 1, rows, symbols, start_date, end_date, frequency,
                [result EXCEPT
                    !.total_records = @ + symbol_result.total_records,
                    !.valid_records = @ + symbol_result.valid_records,
                    !.invalid_records = @ + symbol_result.invalid_records,
                    !.symbols_with_issues =
                        IF symbol_result.issues # <<>> THEN Append(@, symbols[i]) ELSE @,
                    !.issue_types = TallyFrom(1, symbol_result.issues, @)])

validate_frequency_data(rows, symbols, start_date, end_date, frequency) ==
    FrequencyFrom(1, rows, symbols, start_date, end_date, frequency,
        [frequency |-> frequency, total_symbols |-> Len(symbols), total_records |-> 0,
         valid_records |-> 0, invalid_records |-> 0,
         issue_types |-> [t \in IssueTypes |-> 0], symbols_with_issues |-> <<>>])

\* val: op names the call; symbols, start_date, end_date and frequency are its
\* arguments; records are the rows it fetched, per symbol; results the
\* validate_symbol_data result of each symbol; result what the call returned.
NoVal ==
    [op |-> "none", symbols |-> <<>>, start_date |-> 0, end_date |-> 0,
     frequency |-> "-", records |-> <<>>, results |-> <<>>, result |-> <<>>]

IdleVal ==
    /\ market_data = {}
    /\ val = NoVal

\* ================================================================ PerformanceMonitor
\* simtradedata/monitoring/performance_monitor.py.  time.perf_counter() is the
\* clock perf.now, which advances by one at every reading; an Optional field
\* is <<>> for None and <<v>> for v.  Throughput (a quotient of floats) and
\* the optional psutil readings are left out.

\* PhaseStats(name=name, start_time=start_time)
PhaseStats(name, start_time) ==
    [name |-> name, start_time |-> start_time, end_time |-> NoValue,
     duration |-> NoValue, records_count |-> 0, custom_metrics |-> <<>>]

\* PerformanceMonitor.__init__
NewMonitor == [phases |-> <<>>, phase_order |-> <<>>, custom_metrics |-> <<>>, now |-> 0]

\* d[key] = value on a dict modelled as a function
DictSet(d, key, value) == (key :> value) @@ d

\* every call returns the monitor it leaves behind and its return value

\* start_phase that keeps the statistics of a phase started before
start_phase_keeps(monitor, name) ==
    [monitor |->
        [monitor EXCEPT
            !.phases = IF name \in DOMAIN @ THEN @ ELSE DictSet(@, name, PhaseStats(name, monitor.now)),
            !.phase_order = IF name \in Range(@) THEN @ ELSE Append(@, name),
            !.now = @ + 1],
     ret |-> TRUE]

start_phase(monitor, name) ==
    [monitor |->
        [monitor EXCEPT
            !.phases = DictSet(@, name, PhaseStats(name, monitor.now)),
            !.phase_order = IF name \in Range(@) THEN @ ELSE Append(@, name),
            !.now = @ + 1],
     ret |-> TRUE]

\* end_phase that also ends a phase already ended
end_phase_overwrites(monitor, name, records_count) ==
    IF name \notin DOMAIN monitor.phases THEN [monitor |-> monitor, ret |-> FALSE]
    ELSE [monitor |->
            [monitor EXCEPT
                !.phases[name].end_time = Some(monitor.now),
                !.phases[name].duration = Some(monitor.now - monitor.phases[name].start_time),
                !.phases[name].records_count = records_count,
                !.now = @ + 1],
          ret |-> TRUE]

end_phase(monitor, name, records_count) ==
    IF name \notin DOMAIN monitor.phases THEN [monitor |-> monitor, ret |-> FALSE]
    ELSE IF monitor.phases[name].end_time # NoValue THEN [monitor |-> monitor, ret |-> FALSE]
    ELSE [monitor |->
            [monitor EXCEPT
                !.phases[name].end_time = Some(monitor.now),
                !.phases[name].duration = Some(monitor.now - monitor.phases[name].start_time),
                !.phases[name].records_count = records_count,
                !.now = @ + 1],
          ret |-> TRUE]

\* phase is None (a global metric) or a phase name
record_metric(monitor, name, value, phase) ==
    IF phase = None
    THEN [monitor |-> [monitor EXCEPT !.custom_metrics = DictSet(@, name, value)],
          ret |-> TRUE]
    ELSE IF phase \notin DOMAIN monitor.phases THEN [monitor |-> monitor, ret |-> FALSE]
    ELSE [monitor |->
            [monitor EXCEPT !.phases[phase].custom_metrics = DictSet(@, name, value)],
          ret |-> TRUE]

\* phase and phase.duration is not None
HasDuration(monitor, phase_name) ==
    phase_name \in DOMAIN monitor.phases /\ monitor.phases[phase_name].duration # NoValue

\* the names generate_report's loop appends, in its order
ReportedNames(monitor) ==
    SelectSeq(monitor.phase_order, LAMBDA phase_name : HasDuration(monitor, phase_name))

RECURSIVE SumSeq(_)
SumSeq(numbers) == IF numbers = <<>> THEN 0 ELSE Head(numbers) + SumSeq(Tail(numbers))

Durations(monitor, names) == [i \in 1..Len(names) |-> monitor.phases[names[i]].duration[1]]

RecordCounts(monitor, names) == [i \in 1..Len(names) |-> monitor.phases[names[i]].records_count]

\* a phase whose share of the summed durations exceeds the threshold of 0.5
identify_bottlenecks(monitor) ==
    LET ended == SelectSeq(monitor.phase_order, LAMBDA n : HasDuration(monitor, n))
        total_duration == SumSeq(Durations(monitor, ended))
    IN  IF total_duration = 0 THEN <<>>
        ELSE SelectSeq(ended, LAMBDA n : monitor.phases[n].duration[1] * 2 > total_duration)

generate_report(monitor) ==
    LET names == ReportedNames(monitor)
    IN  [total_duration |-> SumSeq(Durations(monitor, names)),
         total_records |-> SumSeq(RecordCounts(monitor, names)),
         phases |-> [i \in 1..Len(names) |-> monitor.phases[names[i]]],
         bottlenecks |-> identify_bottlenecks(monitor),
         custom_metrics |-> monitor.custom_metrics]

\* reset keeps the clock running
reset(monitor) == [NewMonitor EXCEPT !.now = monitor.now]

\* pm: op names the last call; name, records_count, value and phase are its
\* arguments; ret its return value; before the monitor it was called on;
\* report what generate_report returned; log the start_phase, end_phase and
\* reset calls made so far, each with its arguments and return value.
NoCall ==
    [op |-> "none", name |-> "-", records_count |-> 0, value |-> 0, phase |-> "-",
     ret |-> FALSE, before |-> NewMonitor, report |-> <<>>, log |-> <<>>]

IdlePerf ==
    /\ perf = NewMonitor
    /\ pm = NoCall

\* ================================================================ ConnectionManager
\* simtradedata/data_sources/connection_manager.py.  datetime.now() and
\* time.time() are the clock conn.now, in ticks; _lock is a threading.Lock,
\* which records that it is locked and not by whom.  The adapter is the
\* collaborator the manager is constructed with: is_connected() reads its
\* connected flag, connect() sets the flag and _last_connect_time or raises,
\* disconnect() clears the flag or raises, get_trade_calendar() answers or
\* raises.  The wait and access times of _stats are left out.

Threads == {"t1", "t2", "t3"}

\* ConnectionManager.__init__, with an adapter that is not connected
NewManager ==
    [lock |-> FALSE,
     stats |-> [reconnect_count |-> 0, access_count |-> 0, lock_timeout_count |-> 0,
                last_heartbeat_time |-> NoValue],
     last_access_time |-> NoValue,
     adapter |-> [connected |-> FALSE, last_connect_time |-> NoValue],
     now |-> 0]

\* threading.Lock.acquire takes the lock only when it is unlocked
CanAcquireAlways(c) == TRUE

CanAcquire(c) == ~c.lock

\* timeout = self.lock_timeout when the argument is None
EffectiveTimeout(timeout) == IF timeout = NoValue THEN LockTimeout ELSE timeout[1]

\* what the adapter's methods do when an ensure_connected call makes them
AdapterOutcomes == [connect : {"ok", "raise"}, disconnect : {"ok", "raise"}]

\* the not-connected branch: one connect attempt
ConnectFresh(c, env) ==
    LET counted == [c EXCEPT !.stats.reconnect_count = @ + 1]
    IN  IF env.connect = "ok"
        THEN [conn |-> [counted EXCEPT !.adapter = [connected |-> TRUE,
                                                    last_connect_time |-> Some(c.now)],
                                       !.last_access_time = Some(c.now)],
              calls |-> <<"connect">>, ret |-> TRUE]
        ELSE [conn |-> counted, calls |-> <<"connect">>, ret |-> FALSE]

\* the session-timeout branch: disconnect, then connect
Reconnect(c, env) ==
    LET counted == [c EXCEPT !.stats.reconnect_count = @ + 1]
    IN  IF env.disconnect = "raise"
        THEN [conn |-> counted, calls |-> <<"disconnect">>, ret |-> FALSE]
        ELSE IF env.connect = "raise"
        THEN [conn |-> [counted EXCEPT !.adapter.connected = FALSE],
              calls |-> <<"disconnect", "connect">>, ret |-> FALSE]
        ELSE [conn |-> [counted EXCEPT !.adapter = [connected |-> TRUE,
                                                    last_connect_time |-> Some(c.now)],
                                       !.last_access_time = Some(c.now)],
              calls |-> <<"disconnect", "connect">>, ret |-> TRUE]

\* elapsed > self.session_timeout, when _last_connect_time is set
SessionExpiredAtOrAfter(c) ==
    /\ c.adapter.last_connect_time # NoValue
    /\ c.now - c.adapter.last_connect_time[1] >= SessionTimeout

SessionExpired(c) ==
    /\ c.adapter.last_connect_time # NoValue
    /\ c.now - c.adapter.last_connect_time[1] > SessionTimeout

ensure_connected(c, env) ==
    IF ~c.adapter.connected THEN ConnectFresh(c, env)
    ELSE IF SessionExpired(c) THEN Reconnect(c, env)
    ELSE [conn |-> [c EXCEPT !.last_access_time = Some(c.now)], calls |-> <<>>, ret |-> TRUE]

\* ConnectionManager.disconnect: the adapter's disconnect, its exception swallowed
disconnect(c, outcome) ==
    IF outcome = "ok" THEN [c EXCEPT !.adapter.connected = FALSE] ELSE c

\* heartbeat's early return: the last access is more recent than heartbeat_interval
HeartbeatNotDue(c) ==
    /\ c.last_access_time # NoValue
    /\ c.now - c.last_access_time[1] < HeartbeatInterval

\* threads[t]: pc is where thread t is; op the manager call it is in; deadline
\* the clock value at which its _lock.acquire gives up; read the value of
\* lock_timeout_count it loaded for "+= 1"; ret the return value of its last
\* call; raised whether the heartbeat query raised.
IdleThread ==
    [pc |-> "idle", op |-> "none", deadline |-> 0, read |-> 0, ret |-> FALSE,
     raised |-> FALSE]

\* conn.ghost: acquired and timeouts count the acquire_lock calls that have
\* returned True and False; started counts the calls made; last is the last
\* ensure_connected call: the manager it was called on, what the adapter's
\* methods would do, the adapter calls it made and its return value.
NoEnsure ==
    [by |-> "-", before |-> NewManager, env |-> [connect |-> "ok", disconnect |-> "ok"],
     calls |-> <<>>, ret |-> FALSE]

NoGhost == [started |-> 0, acquired |-> 0, timeouts |-> 0, last |-> NoEnsure]

IdleConn ==
    /\ conn = [m |-> NewManager, ghost |-> NoGhost]
    /\ threads = [t \in Threads |-> IdleThread]

IdleMore ==
    /\ IdleVal
    /\ IdlePerf
    /\ IdleConn

\* ---- the idle state of each component
\* out: op names the call; symbol, frequency, start_date, end_date are its
\* arguments; fault is the injected query failure of detect_symbol_gaps and
\* faults those of a fan-out scan, whose frequencies or tables argument is
\* groups; raised whether the call raised; gaps is detect_symbol_gaps's return
\* value and result that of a fan-out scan.
NoOut ==
    [op |-> "none", symbol |-> "-", frequency |-> "-", start_date |-> 0,
     end_date |-> 0, fault |-> "none", faults |-> [cal |-> {}, ex |-> {}],
     groups |-> <<>>, raised |-> FALSE, gaps |-> <<>>, result |-> <<>>]

IdleGap ==
    /\ trading_calendar = {}
    /\ gapdb = [t \in SupportedNames |-> {}]
    /\ out = NoOut

IdleBW ==
    /\ batch_size = BatchSize
    /\ auto_flush = TRUE
    /\ bufKeys = <<>>
    /\ buffer = [t \in Tables |-> <<>>]
    /\ stats = [total_records |-> 0, total_batches |-> 0, failed_batches |-> 0]
    /\ db = [t \in Tables |-> {}]
    /\ scope = "in"
    /\ nadds = 0
    /\ ret = NoRet

\* sync: op names the call; symbols, target_date, fault, env are its arguments
\* and what its collaborators did; raised whether it raised; result its return
\* value; writes the ledger statuses it wrote, calls the requests it made to
\* the provider and the engines, ran the sub-operations it entered, in order;
\* before the store as the call found it; ncalls the calls made so far.
NoSync ==
    [op |-> "none", symbols |-> <<>>, target_date |-> TestDate, fault |-> "none",
     env |-> <<>>, raised |-> FALSE, result |-> <<>>, writes |-> <<>>,
     calls |-> <<>>, ran |-> <<>>, before |-> EmptyStore, ncalls |-> 0]

IdleSync ==
    /\ syncdb = EmptyStore
    /\ nsessions = 0
    /\ sync = NoSync


\* ------------------------------------------------------------------ SpecBW
SetWriter(w) ==
    /\ bufKeys' = w.bufKeys
    /\ buffer' = w.buffer
    /\ stats' = w.stats
    /\ db' = w.db

InitBW ==
    /\ batch_size = BatchSize
    /\ auto_flush \in BOOLEAN
    /\ bufKeys = <<>>
    /\ buffer = [t \in Tables |-> <<>>]
    /\ stats = [total_records |-> 0, total_batches |-> 0, failed_batches |-> 0]
    /\ db = [t \in Tables |-> {}]
    /\ scope = "in"
    /\ nadds = 0
    /\ ret = NoRet
    /\ IdleGap
    /\ IdleSync
    /\ IdleMore

\* A call is explored while the failed flushes stay within the budget.
WithinBudget(w) == w.stats.failed_batches <= MaxFailed

\* The store raises for at most one table during one call, a table that has
\* records to flush.
FaultSets == {{}} \cup {{t} : t \in {u \in Tables : buffer[u] # <<>>}}

AddRecord ==
    /\ scope = "in"
    /\ nadds < MaxAdds
    /\ \E table \in Tables, dbRaises \in BOOLEAN : \E data \in RecordsFor(table) :
        LET r == add_record(Writer, table, data, dbRaises)
        IN  /\ WithinBudget(r.w)
            /\ dbRaises => r.raised
            /\ SetWriter(r.w)
            /\ ret' = [NoRet EXCEPT !.op = "add_record", !.table = table,
                           !.data = <<data>>,
                           !.count = r.count, !.raised = r.raised,
                           !.batch = IF r.w.stats = stats THEN <<>>
                                     ELSE Append(buffer[table], data),
                           !.replaced = db[table] \ r.w.db[table],
                           !.faults = IF dbRaises THEN {table} ELSE {}]
    /\ nadds' = nadds + 1
    /\ UNCHANGED <<batch_size, auto_flush, scope>>
    /\ UNCHANGED <<gapVars, syncVars, moreVars>>

FlushTable ==
    /\ scope = "in"
    /\ \E table \in Tables, dbRaises \in BOOLEAN :
        LET r == Flush(Writer, table, dbRaises)
        IN  /\ WithinBudget(r.w)
            /\ dbRaises => r.raised
            /\ SetWriter(r.w)
            /\ ret' = [NoRet EXCEPT !.op = "flush", !.table = table,
                           !.count = r.count, !.raised = r.raised,
                           !.batch = IF r.w.stats = stats THEN <<>>
                                     ELSE buffer[table],
                           !.replaced = db[table] \ r.w.db[table],
                           !.faults = IF dbRaises THEN {table} ELSE {}]
    /\ UNCHANGED <<batch_size, auto_flush, scope, nadds>>
    /\ UNCHANGED <<gapVars, syncVars, moreVars>>

FlushAllTables ==
    /\ scope = "in"
    /\ \E raisesFor \in FaultSets :
        LET r == FlushAll(Writer, raisesFor)
        IN  /\ WithinBudget(r.w)
            /\ SetWriter(r.w)
            /\ ret' = [NoRet EXCEPT !.op = "flush_all", !.raised = r.raised,
                           !.results = r.results,
                           !.count = r.w.stats.total_records - stats.total_records,
                           !.faults = raisesFor]
    /\ UNCHANGED <<batch_size, auto_flush, scope, nadds>>
    /\ UNCHANGED <<gapVars, syncVars, moreVars>>

ClearBuffer ==
    /\ scope = "in"
    /\ \/ /\ SetWriter(clear_buffer_all(Writer))
          /\ ret' = [NoRet EXCEPT !.op = "clear_buffer"]
       \/ \E table \in Tables :
            /\ SetWriter(clear_buffer(Writer, table))
            /\ ret' = [NoRet EXCEPT !.op = "clear_buffer", !.table = table]
    /\ UNCHANGED <<batch_size, auto_flush, scope, nadds>>
    /\ UNCHANGED <<gapVars, syncVars, moreVars>>

Exit ==
    /\ scope = "in"
    /\ \E exc \in BOOLEAN, raisesFor \in FaultSets :
        LET r == exit(Writer, exc, raisesFor)
        IN  /\ WithinBudget(r.w)
            /\ SetWriter(r.w)
            /\ ret' = [NoRet EXCEPT !.op = "exit", !.raised = r.raised,
                           !.count = r.w.stats.total_records - stats.total_records,
                           !.faults = raisesFor,
                           !.body_exc = exc, !.propagates = r.propagate]
    /\ scope' = "exited"
    /\ UNCHANGED <<batch_size, auto_flush, nadds>>
    /\ UNCHANGED <<gapVars, syncVars, moreVars>>

NextBW == AddRecord \/ FlushTable \/ FlushAllTables \/ ClearBuffer \/ Exit

SpecBW == InitBW /\ [][NextBW]_vars

Spec == SpecBW

\* ------------------------------------------------------------------ SpecGap
RowCount == Cardinality(UNION {gapdb[t] : t \in SupportedNames})

InitGap ==
    /\ IdleBW
    /\ IdleSync
    /\ IdleMore
    /\ trading_calendar \in Calendars
    /\ gapdb = [t \in SupportedNames |-> {}]
    /\ out = NoOut

\* The detector only reads the store, so one detection after the writes
\* reaches every pair of a store content and a result: a behaviour ends with
\* its detection call.
\* A sync writes one market_data row.
WriteMarketRow ==
    /\ out.op = "none"
    /\ RowCount < MaxRows
    /\ \E symbol \in Symbols, d \in Days, frequency \in Freqs :
        gapdb' = [gapdb EXCEPT !.market_data =
                    @ \cup {[symbol |-> symbol, date |-> DateStr(d),
                             frequency |-> frequency]}]
    /\ UNCHANGED <<trading_calendar, out>>
    /\ UNCHANGED <<bwVars, syncVars, moreVars>>

\* the (symbol, frequency) pairs and the date ranges the detector is asked for
Probes == {<<"000001.SZ", "1d">>, <<"600000.SH", "1w">>}
Ranges == {<<0, MaxDay>>, <<1, MaxDay - 1>>, <<0, 4>>, <<4, 0>>}

DetectSymbolGaps ==
    /\ out.op = "none"
    /\ \E probe \in Probes, range \in Ranges, fault \in {"none", "calendar", "existing"} :
        LET r == detect_symbol_gaps(trading_calendar, gapdb.market_data, probe[1],
                                    range[1], range[2], probe[2], fault)
        IN  out' = [NoOut EXCEPT !.op = "detect_symbol_gaps",
                        !.symbol = probe[1], !.frequency = probe[2],
                        !.start_date = range[1], !.end_date = range[2],
                        !.fault = fault, !.raised = r.raised, !.gaps = r.gaps]
    /\ UNCHANGED <<trading_calendar, gapdb>>
    /\ UNCHANGED <<bwVars, syncVars, moreVars>>

NextGap == WriteMarketRow \/ DetectSymbolGaps

SpecGap == InitGap /\ [][NextGap]_vars

\* ------------------------------------------------------------------ SpecScan
ScanTables == {"market_data", "financials"}

\* the row a sync writes to a scanned table for a symbol and a day
TableRow(table, symbol, d, frequency) ==
    IF supported_tables[table].frequency_column # None
    THEN [symbol |-> symbol, date |-> DateStr(d), frequency |-> frequency]
    ELSE [symbol |-> symbol, report_date |-> DateStr(d)]

WriteTableRow ==
    /\ out.op = "none"
    /\ RowCount < MaxScanRows
    /\ \E table \in ScanTables, symbol \in Symbols, d \in ScanDays, frequency \in Freqs :
        gapdb' = [gapdb EXCEPT ![table] = @ \cup {TableRow(table, symbol, d, frequency)}]
    /\ UNCHANGED <<trading_calendar, out>>
    /\ UNCHANGED <<bwVars, syncVars, moreVars>>

ScanRanges == {<<0, MaxScanDay>>, <<1, MaxScanDay>>}

\* The faults of one scan over the given groups (frequencies or tables): none,
\* the trading-day query raising during one unit, or the stored-date query
\* raising for every symbol of one group (a table that cannot be read).
ScanFaults(groups) ==
    {[cal |-> {}, ex |-> {}]}
    \cup {[cal |-> {<<g, s>>}, ex |-> {}] : g \in groups, s \in Symbols}
    \cup {[cal |-> {}, ex |-> {<<g, s>> : s \in Symbols}] : g \in groups}

DetectAllGaps ==
    /\ out.op = "none"
    /\ \E range \in ScanRanges, frequencies \in {<<"1d">>, <<"1d", "1w">>} :
       \E faults \in ScanFaults(Range(frequencies)) :
        LET r == detect_all_gaps(trading_calendar, gapdb.market_data, range[1],
                                 range[2], SymbolList, frequencies, faults)
        IN  out' = [NoOut EXCEPT !.op = "detect_all_gaps",
                        !.start_date = range[1], !.end_date = range[2],
                        !.faults = faults, !.groups = frequencies,
                        !.raised = r.raised, !.result = r]
    /\ UNCHANGED <<trading_calendar, gapdb>>
    /\ UNCHANGED <<bwVars, syncVars, moreVars>>

TableLists ==
    {<<"market_data", "financials">>, <<"market_data", "no_such_table", "financials">>}

DetectAllTablesGaps ==
    /\ out.op = "none"
    /\ \E range \in ScanRanges, tables \in TableLists :
       \E faults \in ScanFaults(Range(tables) \cap SupportedNames) :
        LET r == detect_all_tables_gaps(trading_calendar, gapdb, range[1], range[2],
                                        SymbolList, tables, faults)
        IN  out' = [NoOut EXCEPT !.op = "detect_all_tables_gaps",
                        !.start_date = range[1], !.end_date = range[2],
                        !.faults = faults, !.groups = tables,
                        !.raised = r.raised, !.result = r]
    /\ UNCHANGED <<trading_calendar, gapdb>>
    /\ UNCHANGED <<bwVars, syncVars, moreVars>>

NextScan == WriteTableRow \/ DetectAllGaps \/ DetectAllTablesGaps

\* Over the scanned days the weekday calendar has only trading days; the
\* scans also run on an unpublished (empty) calendar.
InitScan ==
    /\ IdleBW
    /\ IdleSync
    /\ IdleMore
    /\ trading_calendar \in {WeekdayCalendar, {}}
    /\ gapdb = [t \in SupportedNames |-> {}]
    /\ out = NoOut

SpecScan == InitScan /\ [][NextScan]_vars

\* ------------------------------------------------------------------ SpecPlan
\* Rows are written to the ledger and the data tables (as the tests and
\* earlier runs do), then the planning pass runs once.
TestSession == 0

OtherDate == Date(2024, 6, 3)

\* the ledger rows written beforehand: (status, age in hours) of a row for the
\* target date and of a row for another date
LedgerKinds(d) ==
    IF d = TestDate
    THEN {<<"pending", 12>>, <<"pending", 48>>, <<"processing", 48>>,
          <<"completed", 48>>, <<"failed", 48>>}
    ELSE {<<"pending", 48>>, <<"completed", 48>>}

\* the financials rows written beforehand: (year of the report, age in days)
FinancialsKinds == {<<TestDate, 1>>, <<TestDate, 40>>, <<OtherDate, 1>>}

StoreRowCount == Cardinality(UNION {syncdb[t] : t \in SyncTables})

InitPlan ==
    /\ IdleBW
    /\ IdleGap
    /\ IdleSync
    /\ IdleMore

WriteLedgerRow ==
    /\ sync.op = "none"
    /\ StoreRowCount < MaxStoreRows
    /\ \E symbol \in Symbols, d \in {TestDate, OtherDate} :
        \E kind \in LedgerKinds(d) :
            /\ \A r \in syncdb.extended_sync_status :
                    r.symbol # symbol \/ r.target_date # IsoStr(d)
            /\ syncdb' = [syncdb EXCEPT !.extended_sync_status =
                    @ \cup {LedgerRow(symbol, d, kind[1], TestSession, kind[2])}]
    /\ UNCHANGED <<nsessions, sync>>
    /\ UNCHANGED <<bwVars, gapVars, moreVars>>

WriteDataRow ==
    /\ sync.op = "none"
    /\ StoreRowCount < MaxStoreRows
    /\ \E symbol \in Symbols :
        \/ \E kind \in FinancialsKinds :
            /\ \A r \in syncdb.financials :
                    r.symbol # symbol \/ r.report_date # ReportDate(kind[1])
            /\ syncdb' = [syncdb EXCEPT !.financials =
                    @ \cup {FinancialsRow(symbol, ReportDate(kind[1]), kind[2])}]
        \/ \E t \in {"valuations", "technical_indicators"} :
            /\ DatedRow(symbol, IsoStr(OtherDate)) \notin syncdb[t]
            /\ syncdb' = [syncdb EXCEPT ![t] = @ \cup {DatedRow(symbol, IsoStr(OtherDate))}]
    /\ UNCHANGED <<nsessions, sync>>
    /\ UNCHANGED <<bwVars, gapVars, moreVars>>

SymbolLists ==
    {<<>>, <<"000001.SZ", "600000.SH">>, <<"600000.SH", "000001.SZ">>,
     <<"000001.SZ", "000001.SZ">>}

PlanningPass ==
    /\ sync.op = "none"
    /\ \E symbols \in SymbolLists, fault \in {"none", "delete", "completed", "financials"} :
        LET r == get_extended_data_symbols_to_process(syncdb, symbols, TestDate, fault)
        IN  /\ syncdb' = r.store
            /\ sync' = [NoSync EXCEPT !.op = "plan", !.symbols = symbols,
                            !.target_date = TestDate, !.fault = fault,
                            !.raised = r.raised, !.result = r.result,
                            !.before = syncdb]
    /\ UNCHANGED nsessions
    /\ UNCHANGED <<bwVars, gapVars, moreVars>>

NextPlan == WriteLedgerRow \/ WriteDataRow \/ PlanningPass

SpecPlan == InitPlan /\ [][NextPlan]_vars

\* ------------------------------------------------------------------ SpecExt
\* Extended-data syncs, each in a session of its own, over a ledger that may
\* hold a row of an earlier run.
Providers == {[s \in Symbols |-> [fin |-> TRUE, val |-> TRUE]],
              [s \in Symbols |-> [fin |-> FALSE, val |-> (s = "000001.SZ")]]}

InitExt ==
    /\ IdleBW
    /\ IdleGap
    /\ IdleMore
    /\ syncdb \in {EmptyStore}
            \cup {[EmptyStore EXCEPT !.extended_sync_status =
                        {LedgerRow(symbol, TestDate, status, TestSession, 48)}] :
                    symbol \in Symbols, status \in Statuses}
    /\ nsessions = 0
    /\ sync = NoSync

SyncExtendedData ==
    /\ nsessions < MaxSessions
    /\ ~sync.raised
    /\ \E symbols \in SymbolLists \ {<<>>}, provider \in Providers,
          fail_at \in 0..2 :
        LET session_id == nsessions + 1
            r == sync_extended_data(syncdb, symbols, TestDate, session_id,
                                    provider, fail_at)
        IN  /\ syncdb' = r.store
            /\ nsessions' = session_id
            /\ sync' = [NoSync EXCEPT !.op = "sync_extended", !.symbols = symbols,
                            !.target_date = TestDate, !.fault = fail_at,
                            !.raised = r.raised, !.result = r.result,
                            !.writes = r.writes, !.calls = r.calls,
                            !.before = syncdb]
    /\ UNCHANGED <<bwVars, gapVars, moreVars>>

NextExt == SyncExtendedData

SpecExt == InitExt /\ [][NextExt]_vars

\* ------------------------------------------------------------------ SpecCal
\* Calendar updates over a stored calendar that holds some years already.
CalYears == 2023..2027

YearRows(years) ==
    UNION {{CalendarRowOf(YearRecords(y)[i]) : i \in 1..Len(YearRecords(y))} : y \in years}

ServedYears == 2023..2028

CalProviders ==
    {[y \in ServedYears |-> k] : k \in {"list", "dict"}}
    \cup {[y \in ServedYears |-> IF y = bad THEN k ELSE "list"] :
            bad \in {2024, 2026}, k \in {"none", "raise"}}

InitCal ==
    /\ IdleBW
    /\ IdleGap
    /\ IdleMore
    /\ \E years \in SUBSET CalYears :
        /\ Cardinality(years) <= 2
        /\ syncdb = [EmptyStore EXCEPT !.trading_calendar = YearRows(years)]
    /\ nsessions = 0
    /\ sync = NoSync

UpdateTradingCalendar ==
    /\ sync.ncalls < MaxCalUpdates
    /\ \E target_date \in {TestDate, Date(2026, 3, 2)}, serves \in CalProviders :
        LET r == update_trading_calendar(syncdb, target_date, serves)
        IN  /\ syncdb' = r.store
            /\ sync' = [NoSync EXCEPT !.op = "update_trading_calendar",
                            !.target_date = target_date, !.env = serves,
                            !.raised = r.raised, !.result = r.result,
                            !.calls = r.calls, !.before = syncdb,
                            !.ncalls = sync.ncalls + 1]
    /\ UNCHANGED nsessions
    /\ UNCHANGED <<bwVars, gapVars, moreVars>>

NextCal == UpdateTradingCalendar

SpecCal == InitCal /\ [][NextCal]_vars

\* ------------------------------------------------------------------ SpecFix
\* One gap repair over the gaps of a detection. The stocks table lists
\* 000001.SZ since 2020, 600000.SH since June 2025 and 600036.SS without a
\* list_date; 000002.SZ is not in it.
FixStocks ==
    {StockRow("000001.SZ", <<2020, 1, 1>>), StockRow("600000.SH", <<2025, 6, 1>>),
     StockRow("600036.SS", NoListDate)}

GapOf(symbol, frequency) ==
    [symbol |-> symbol, frequency |-> frequency, start_date |-> <<2025, 1, 20>>,
     end_date |-> <<2025, 1, 21>>]

Repeat(x, n) == [i \in 1..n |-> x]

\* a detection's result: daily gaps of a listed stock, of a stock listed later,
\* of a stock without list_date and of an unknown stock, then weekly gaps
DetectedGaps(fixable, early, more, undated, unknown, weekly) ==
    LET daily == Repeat(GapOf("000001.SZ", "1d"), fixable)
                    \o Repeat(GapOf("600000.SH", "1d"), early)
                    \o Repeat(GapOf("000002.SZ", "1d"), unknown)
                    \o Repeat(GapOf("600036.SS", "1d"), undated)
                    \o Repeat(GapOf("000001.SZ", "1d"), more)
        week == Repeat(GapOf("000001.SZ", "1w"), weekly)
    IN  [summary |-> [total_gaps |-> Len(daily) + Len(week)],
         gaps_by_frequency |-> <<<<"1d", daily>>, <<"1w", week>>>>]

InitFix ==
    /\ IdleBW
    /\ IdleGap
    /\ IdleMore
    /\ syncdb = [EmptyStore EXCEPT !.stocks = FixStocks]
    /\ nsessions = 0
    /\ sync = NoSync

AutoFixGaps ==
    /\ sync.op = "none"
    /\ \E fixable, more \in 0..MaxGapRun, early, undated, unknown, weekly \in 0..1,
          daily \in {"data", "empty"}, fail_call \in {0, 1, max_fixes},
          engine \in {"records", "nothing", "raise"} :
        LET gap_result == DetectedGaps(fixable, early, more, undated, unknown, weekly)
            r == auto_fix_gaps(gap_result, syncdb.stocks, daily, fail_call, engine)
        IN  sync' = [NoSync EXCEPT !.op = "auto_fix_gaps", !.env = gap_result,
                        !.raised = r.raised, !.result = r.result, !.calls = r.calls,
                        !.before = syncdb, !.ncalls = 1]
    /\ UNCHANGED <<syncdb, nsessions>>
    /\ UNCHANGED <<bwVars, gapVars, moreVars>>

NextFix == AutoFixGaps

SpecFix == InitFix /\ [][NextFix]_vars

\* ------------------------------------------------------------------ SpecFull
\* One full synchronisation over a store that is empty, or holds the stocks and
\* a calendar, or also the completed extended data of an earlier session.
FullSymbols == {SymbolOrder[i] : i \in 1..Len(SymbolOrder)}

FullProvider == [s \in FullSymbols |-> [fin |-> TRUE, val |-> TRUE]]

ServesAll == [y \in ServedYears |-> "list"]

ServesNothing == [y \in ServedYears |-> "raise"]

FutureDate == Date(2026, 12, 31)

ListedStore ==
    [EmptyStore EXCEPT !.stocks = FixStocks,
                       !.trading_calendar = YearRows({2024, 2026})]

SyncedStore ==
    sync_extended_data(ListedStore, <<"000001.SZ", "600000.SH">>, TestDate,
                       TestSession, FullProvider, 0).store

FullStores == {EmptyStore, ListedStore, SyncedStore}

FullConfigs ==
    {[enable_auto_gap_fix |-> TRUE, enable_validation |-> TRUE],
     [enable_auto_gap_fix |-> TRUE, enable_validation |-> FALSE],
     [enable_auto_gap_fix |-> FALSE, enable_validation |-> TRUE]}

\* the outcomes of the collaborators that make a difference to one another
BaseOutcomes == {<<ServesAll, "list">>, <<ServesAll, "raise">>, <<ServesNothing, "list">>}

PlanOutcomes == {<<"none", 0>>, <<"none", 1>>, <<"completed", 0>>}

GapOutcomes ==
    {<<"ok", DetectedGaps(0, 0, 0, 0, 0, 0), 0>>, <<"raise", DetectedGaps(0, 0, 0, 0, 0, 0), 0>>,
     <<"ok", DetectedGaps(1, 1, 0, 0, 0, 0), 0>>, <<"ok", DetectedGaps(1, 1, 0, 0, 0, 0), 1>>}

FullEnvs ==
    {[serves |-> base[1], stock_info |-> base[2], incremental |-> incremental,
      plan_fault |-> plan[1], provider |-> FullProvider, fail_at |-> plan[2],
      detect |-> gap[1], detected |-> gap[2], daily |-> "data", fail_call |-> gap[3],
      engine |-> "records", validation |-> validation] :
        base \in BaseOutcomes, incremental \in {"ok", "raise"}, plan \in PlanOutcomes,
        gap \in GapOutcomes, validation \in {"ok", "raise"}}

InitFull ==
    /\ IdleBW
    /\ IdleGap
    /\ IdleMore
    /\ syncdb \in FullStores
    /\ nsessions = 0
    /\ sync = NoSync

RunFullSync ==
    /\ sync.op = "none"
    /\ \E config \in FullConfigs, target_date \in {NoDate, TestDate, Today, FutureDate},
          symbols \in {<<>>, <<"000001.SZ", "600000.SH">>}, env \in FullEnvs :
        \E run \in {run_full_sync(syncdb, nsessions, config, target_date, symbols, env)} :
            /\ syncdb' = run.store
            /\ nsessions' = run.nsessions
            /\ sync' = [NoSync EXCEPT !.op = "run_full_sync", !.symbols = symbols,
                            !.target_date = target_date, !.fault = config,
                            !.env = env, !.raised = run.raised,
                            !.result = unified_error_handler(run),
                            !.writes = run.writes, !.calls = run.calls,
                            !.ran = run.ran, !.before = syncdb, !.ncalls = 1]
    /\ UNCHANGED <<bwVars, gapVars, moreVars>>

NextFull == RunFullSync

SpecFull == InitFull /\ [][NextFull]_vars

\* ------------------------------------------------------------------ claims: BatchWriter
\* Every record of the batch has the column set of the first (the caller's
\* side of the flush contract).
UniformBatch(batch) == \A i \in 1..Len(batch) : DOMAIN batch[i] = DOMAIN batch[1]

\* The stored form of a record: NULL in the columns the record leaves out.
ExpectedRow(table, rec) ==
    [c \in TableColumns(table) |-> IF c \in DOMAIN rec THEN rec[c] ELSE Null]

\* No later record of the batch has the key of the i-th.
LastWithKey(batch, i) == \A j \in (i + 1)..Len(batch) : batch[j].id # batch[i].id

RowsWithKey(rows, id) == {r \in rows : r.id = id}

\* Every record of the batch has a row under its key.
Persisted(rows, batch) ==
    \A i \in 1..Len(batch) : RowsWithKey(rows, batch[i].id) # {}

\* This step is a flush or an add_record whose flush committed ret'.batch.
FlushCommitted ==
    /\ ret'.op \in {"flush", "add_record"}
    /\ ~ret'.raised
    /\ ret'.batch # <<>>

\* The flush of table t in this step fails: a record lacks a column of the
\* first record, or the store raises for t.
FlushFails(t) ==
    /\ buffer[t] # <<>>
    /\ \/ ~ParamsOk(buffer[t], Columns(buffer[t]))
       \/ t \in ret'.faults

\* C1: a committed flush of a record whose primary key already has a stored row
\* leaves exactly one row for that key, holding the flushed record's values.
C1_ReflushReplacesRow ==
    [][(FlushCommitted /\ UniformBatch(ret'.batch)) =>
        \A i \in 1..Len(ret'.batch) :
            LET rec == ret'.batch[i]
                t == ret'.table
            IN  (LastWithKey(ret'.batch, i) /\ RowsWithKey(db[t], rec.id) # {})
                => RowsWithKey(db'[t], rec.id) = {ExpectedRow(t, rec)}]_vars

\* C1 witness: a flush of one record replaced the row an earlier flush stored
\* under the same key with other values.
C1_Witness ==
    /\ ret.op = "flush"
    /\ ~ret.raised
    /\ Len(ret.batch) = 1
    /\ ret.replaced # {}
    /\ stats.total_batches = 2
    /\ db[ret.table] = {ExpectedRow(ret.table, ret.batch[1])}

\* C2: a flush(table) that raises leaves the store and every buffer as they
\* were, adds one to failed_batches and leaves total_records and total_batches.
C2_FailedFlushKeepsBuffer ==
    [][(ret'.op = "flush" /\ ret'.raised) =>
        /\ db' = db
        /\ buffer' = buffer
        /\ bufKeys' = bufKeys
        /\ stats' = [stats EXCEPT !.failed_batches = @ + 1]]_vars

\* C2 witness: the store raised on the second statement of a two-record batch
\* whose first record had no row yet; the row is not there, the records are.
C2_Witness ==
    /\ ret.op = "flush"
    /\ ret.raised
    /\ ret.faults = {ret.table}
    /\ Len(buffer[ret.table]) >= 2
    /\ UniformBatch(buffer[ret.table])
    /\ RowsWithKey(db[ret.table], buffer[ret.table][1].id) = {}
    /\ stats.failed_batches = 1

\* C3: flush_all never raises and reports every buffered table; a table whose
\* flush fails is reported with 0 and keeps its buffer, every other table has
\* its records persisted, its buffer emptied and its record count reported.
C3_FlushAllIsolatesTables ==
    [][(ret'.op = "flush_all") =>
        /\ ~ret'.raised
        /\ DOMAIN ret'.results = Range(bufKeys)
        /\ \A t \in Range(bufKeys) :
            IF FlushFails(t)
            THEN /\ ret'.results[t] = 0
                 /\ buffer'[t] = buffer[t]
                 /\ db'[t] = db[t]
            ELSE /\ ret'.results[t] = Len(buffer[t])
                 /\ buffer'[t] = <<>>
                 /\ Persisted(db'[t], buffer[t])]_vars

\* C3 witness: one flush_all in which a table failed and another was written.
C3_Witness ==
    /\ ret.op = "flush_all"
    /\ \E a, b \in DOMAIN ret.results :
        /\ ret.results[a] = 0
        /\ buffer[a] # <<>>
        /\ db[a] = {}
        /\ ret.results[b] > 0
        /\ buffer[b] = <<>>
        /\ db[b] # {}

\* C4: with auto_flush, the add_record that brings a buffer to batch_size
\* flushes it (returning 0 with the buffer empty unless the flush raises), and
\* an add_record that leaves the buffer below batch_size returns the buffered
\* count and touches neither the store nor the statistics.
C4_AutoFlushAtBatchSize ==
    [][(ret'.op = "add_record" /\ auto_flush) =>
        LET t == ret'.table
            n == Len(buffer[t]) + 1
        IN  /\ (n = batch_size /\ ~ret'.raised) =>
                /\ ret'.count = 0
                /\ buffer'[t] = <<>>
                /\ stats'.total_batches = stats.total_batches + 1
                /\ stats'.total_records = stats.total_records + n
                /\ Persisted(db'[t], buffer[t] \o ret'.data)
            /\ (n = batch_size /\ ret'.raised) =>
                stats'.failed_batches = stats.failed_batches + 1
            /\ (n < batch_size) =>
                /\ ~ret'.raised
                /\ ret'.count = n
                /\ buffer'[t] = buffer[t] \o ret'.data
                /\ db' = db
                /\ stats' = stats]_vars

\* C4 witness: an add_record returned 0 after flushing exactly batch_size records.
C4_Witness ==
    /\ ret.op = "add_record"
    /\ auto_flush
    /\ ~ret.raised
    /\ ret.count = 0
    /\ Len(ret.batch) = batch_size
    /\ buffer[ret.table] = <<>>
    /\ stats.total_records = batch_size

\* C5: __exit__ flushes every buffered table whether or not the with-block
\* raised, never raises itself (a table whose flush fails keeps its records),
\* and lets the with-block's exception propagate.
C5_ExitFlushesAndPropagates ==
    [][(ret'.op = "exit") =>
        /\ ~ret'.raised
        /\ ret'.propagates = ret'.body_exc
        /\ \A t \in Tables :
            IF FlushFails(t)
            THEN buffer'[t] = buffer[t]
            ELSE /\ buffer'[t] = <<>>
                 /\ Persisted(db'[t], buffer[t])]_vars

\* C5 witness: a with-block left by an exception; the exit flushed records of
\* one table, the flush of another failed, and the exception propagates.
C5_Witness ==
    /\ scope = "exited"
    /\ ret.op = "exit"
    /\ ret.body_exc
    /\ ret.propagates
    /\ ret.count > 0
    /\ \E t \in Tables : buffer[t] # <<>>

\* C6: a committed flush counts every buffered record, duplicates of a key
\* included, and of two records with the same key the later-added one is the
\* stored row.
C6_LaterRecordWins ==
    [][(FlushCommitted /\ UniformBatch(ret'.batch)) =>
        /\ stats'.total_records = stats.total_records + Len(ret'.batch)
        /\ \A i, j \in 1..Len(ret'.batch) :
            (i < j /\ ret'.batch[i].id = ret'.batch[j].id
                   /\ LastWithKey(ret'.batch, j))
            => RowsWithKey(db'[ret'.table], ret'.batch[j].id)
                   = {ExpectedRow(ret'.table, ret'.batch[j])}]_vars

\* C6 witness: one flush of two records with the same key and different
\* values stored the second.
C6_Witness ==
    /\ ret.op = "flush"
    /\ ~ret.raised
    /\ ret.count = 2
    /\ ret.batch[1].id = ret.batch[2].id
    /\ ret.batch[1] # ret.batch[2]
    /\ db[ret.table] = {ExpectedRow(ret.table, ret.batch[2])}

\* ------------------------------------------------------------------ claims: GapDetector
\* what the store holds, read without the detector's queries
IsTradingDay(d) == CalendarRow(d, "CN", 1) \in trading_calendar

TradingDaysIn(start_date, end_date) ==
    {d \in Days : start_date <= d /\ d <= end_date /\ IsTradingDay(d)}

StoredDays(symbol, frequency) ==
    {d \in Days : [symbol |-> symbol, date |-> DateStr(d), frequency |-> frequency]
                    \in gapdb.market_data}

\* the days from a gap's start_date to its end_date
GapSpan(gap) ==
    {d \in Days : \E a, b \in Days :
        /\ gap.start_date = DateStr(a)
        /\ gap.end_date = DateStr(b)
        /\ a <= d /\ d <= b}

\* the trading days of the asked range that detect_symbol_gaps found no
\* stored date for (none at all when the stored-date query raised)
MissingSeen ==
    IF out.fault = "existing"
    THEN TradingDaysIn(out.start_date, out.end_date)
    ELSE TradingDaysIn(out.start_date, out.end_date)
            \ StoredDays(out.symbol, out.frequency)

\* C7: detect_symbol_gaps (its queries answering) returns, in ascending order,
\* exactly the maximal runs of consecutive days among the trading days of the
\* range without a stored row of the symbol and frequency; gap_days is the
\* run's length; nothing missing gives no gap.
C7_GapsAreMaximalMissingRuns ==
    (out.op = "detect_symbol_gaps" /\ out.fault = "none") =>
        LET missing == TradingDaysIn(out.start_date, out.end_date)
                        \ StoredDays(out.symbol, out.frequency)
            gaps == out.gaps
        IN  /\ ~out.raised
            /\ \A i \in 1..Len(gaps) :
                LET span == GapSpan(gaps[i])
                IN  /\ span # {}
                    /\ span \subseteq missing
                    /\ \A d \in span : (d - 1) \notin missing \/ (d - 1) \in span
                    /\ \A d \in span : (d + 1) \notin missing \/ (d + 1) \in span
                    /\ gaps[i].gap_days = Cardinality(span)
                    /\ gaps[i].gap_days
                        = (ParseDate(gaps[i].end_date) - ParseDate(gaps[i].start_date)) + 1
                    /\ gaps[i].symbol = out.symbol
                    /\ gaps[i].frequency = out.frequency
            /\ \A i, j \in 1..Len(gaps) :
                i < j => \A a \in GapSpan(gaps[i]), b \in GapSpan(gaps[j]) : a < b
            /\ \A d \in missing : \E i \in 1..Len(gaps) : d \in GapSpan(gaps[i])
            /\ (missing = {} => gaps = <<>>)

\* C7 witness: Monday to Friday are trading days, Monday and Friday are
\* stored, and the one gap is Tuesday to Thursday, 3 days.
C7_Witness ==
    /\ out.op = "detect_symbol_gaps"
    /\ out.fault = "none"
    /\ out.start_date = 0 /\ out.end_date = 4
    /\ TradingDaysIn(0, 4) = 0..4
    /\ StoredDays(out.symbol, out.frequency) = {0, 4}
    /\ Len(out.gaps) = 1
    /\ out.gaps[1].start_date = DateStr(1)
    /\ out.gaps[1].end_date = DateStr(3)
    /\ out.gaps[1].gap_days = 3
    /\ out.gaps[1].severity = "medium"

\* C8: a gap's severity is decided by its length in calendar days alone:
\* 1 low, 2 to 3 medium, 4 to 7 high, more than 7 critical.
C8_SeverityByLength ==
    (out.op = "detect_symbol_gaps") =>
        \A i \in 1..Len(out.gaps) :
            LET days == (ParseDate(out.gaps[i].end_date)
                            - ParseDate(out.gaps[i].start_date)) + 1
            IN  /\ days >= 1
                /\ (days = 1) <=> (out.gaps[i].severity = "low")
                /\ (days \in 2..3) <=> (out.gaps[i].severity = "medium")
                /\ (days \in 4..7) <=> (out.gaps[i].severity = "high")
                /\ (days > 7) <=> (out.gaps[i].severity = "critical")

\* C8 witness: a gap of 8 days, critical.
C8_Witness ==
    /\ out.op = "detect_symbol_gaps"
    /\ \E i \in 1..Len(out.gaps) :
        /\ out.gaps[i].gap_days = 8
        /\ out.gaps[i].severity = "critical"

\* C9: two missing trading days share a gap only through a chain of missing
\* days one calendar day apart: neighbouring missing days with a day that is
\* not missing between them end one gap and start the next, as a missing
\* Friday and the Monday after it do.
C9_MergeOnlyAdjacentDays ==
    (out.op = "detect_symbol_gaps" /\ ~out.raised) =>
        /\ \A i \in 1..Len(out.gaps) : GapSpan(out.gaps[i]) \subseteq MissingSeen
        /\ \A a, b \in MissingSeen :
            (a + 1 < b /\ ~\E m \in MissingSeen : a < m /\ m < b) =>
                \E i \in 1..(Len(out.gaps) - 1) :
                    /\ out.gaps[i].end_date = DateStr(a)
                    /\ out.gaps[i + 1].start_date = DateStr(b)
        /\ \A a \in MissingSeen :
            (a + 1) \in MissingSeen =>
                \E i \in 1..Len(out.gaps) : {a, a + 1} \subseteq GapSpan(out.gaps[i])

\* C9 witness: Thursday is stored, Friday and the next Monday are missing and
\* the weekend is not traded: two gaps of one day each.
C9_Witness ==
    /\ out.op = "detect_symbol_gaps"
    /\ out.fault = "none"
    /\ ~IsTradingDay(5) /\ ~IsTradingDay(6)
    /\ 3 \in StoredDays(out.symbol, out.frequency)
    /\ \E i \in 1..(Len(out.gaps) - 1) :
        /\ out.gaps[i].start_date = DateStr(4)
        /\ out.gaps[i].end_date = DateStr(4)
        /\ out.gaps[i].gap_days = 1
        /\ out.gaps[i + 1].start_date = DateStr(7)
        /\ out.gaps[i + 1].end_date = DateStr(7)
        /\ out.gaps[i + 1].gap_days = 1

\* ---- the fan-out scans
\* the days a table (or, for market_data, a frequency) holds for a symbol
TableStoredDays(table, symbol) ==
    IF table = "market_data"
    THEN StoredDays(symbol, "1d")
    ELSE {d \in Days : \E r \in gapdb[table] :
            /\ r.symbol = symbol
            /\ r[supported_tables[table].date_column] = DateStr(d)}

\* the days the gaps of a list report for a symbol
Covered(gaps, symbol) ==
    UNION {GapSpan(gaps[k]) : k \in {n \in 1..Len(gaps) : gaps[n].symbol = symbol}}

\* what a scan unit must report: nothing when its trading-day query raised,
\* every trading day when its stored-date query raised, else the missing days
ExpectedDays(unit, stored) ==
    IF unit \in out.faults.cal THEN {}
    ELSE IF unit \in out.faults.ex THEN TradingDaysIn(out.start_date, out.end_date)
    ELSE TradingDaysIn(out.start_date, out.end_date) \ stored

\* a table for none of whose symbols both queries answered
FailingTables ==
    {t \in Range(out.groups) \cap SupportedNames :
        \A s \in Symbols : <<t, s>> \in (out.faults.cal \cup out.faults.ex)}

\* C10 (as amended): a fan-out scan never raises; whatever query failed, every
\* asked frequency and every asked supported table has an entry, no entry is an
\* error entry, and each symbol's gaps in it cover exactly the days its unit
\* must report: a unit whose trading-day query raised reports nothing and a
\* unit whose stored-date query raised reports every trading day of the range.
C10_ScanSurvivesFailures ==
    /\ (out.op = "detect_all_gaps") =>
        /\ ~out.raised
        /\ DOMAIN out.result.gaps_by_frequency = Range(out.groups)
        /\ \A f \in Range(out.groups), s \in Symbols :
            Covered(out.result.gaps_by_frequency[f].gaps, s)
                = ExpectedDays(<<f, s>>, StoredDays(s, f))
    /\ (out.op = "detect_all_tables_gaps") =>
        /\ ~out.raised
        /\ DOMAIN out.result.gaps_by_table = Range(out.groups) \cap SupportedNames
        /\ \A t \in Range(out.groups) \cap SupportedNames :
            /\ "error" \notin DOMAIN out.result.gaps_by_table[t]
            /\ \A s \in Symbols :
                Covered(out.result.gaps_by_table[t].gaps, s)
                    = ExpectedDays(<<t, s>>, TableStoredDays(t, s))

\* C10 witness: a table scan in which the stored dates of one table could not
\* be read: that table reports gaps without an error entry, and the gaps of
\* the other table, which holds a row, are reported as well.
C10_Witness ==
    /\ out.op = "detect_all_tables_gaps"
    /\ out.faults.cal = {}
    /\ \E t \in FailingTables, u \in DOMAIN out.result.gaps_by_table :
        /\ u # t
        /\ gapdb[u] # {}
        /\ out.result.gaps_by_table[t].gaps # <<>>
        /\ out.result.gaps_by_table[u].gaps # <<>>
        /\ "error" \notin DOMAIN out.result.gaps_by_table[t]

\* C10 as claimed: a table scan never raises, every asked supported table has
\* an entry, the symbols whose queries answered have their gaps reported, and a
\* failing table is reported with an error entry and an empty gap list.
C10_FailingTableHasErrorEntry ==
    (out.op = "detect_all_tables_gaps") =>
        /\ ~out.raised
        /\ DOMAIN out.result.gaps_by_table = Range(out.groups) \cap SupportedNames
        /\ \A t \in (Range(out.groups) \cap SupportedNames) \ FailingTables :
            \A s \in Symbols :
                <<t, s>> \notin (out.faults.cal \cup out.faults.ex) =>
                    Covered(out.result.gaps_by_table[t].gaps, s)
                        = ExpectedDays(<<t, s>>, TableStoredDays(t, s))
        /\ \A t \in FailingTables :
            /\ "error" \in DOMAIN out.result.gaps_by_table[t]
            /\ out.result.gaps_by_table[t].gaps = <<>>

\* ------------------------------------------------------------------ claims: SyncManager
\* C11: the planning pass deletes from the ledger exactly the rows of the
\* target date that are pending and older than 1 day; a pending row 12 hours
\* old and the rows of every other status stay.
C11_DeletesOnlyStalePending ==
    (sync.op = "plan" /\ sync.fault # "delete") =>
        syncdb.extended_sync_status =
            {r \in sync.before.extended_sync_status :
                ~(/\ r.target_date = IsoStr(sync.target_date)
                  /\ r.status = "pending"
                  /\ r.age_hours > 24)}

\* the symbols of the call with no completed ledger row for the target date
\* that lack a row in one of the three data tables, in input order; a
\* financials row counts when it is of the report date and, if fresh_only,
\* younger than 30 days
PlannedSymbols(fresh_only) ==
    LET before == sync.before
        IsCompleted(s) ==
            \E r \in before.extended_sync_status :
                /\ r.symbol = s
                /\ r.target_date = IsoStr(sync.target_date)
                /\ r.status = "completed"
        HasFinancials(s) ==
            \E r \in before.financials :
                /\ r.symbol = s
                /\ r.report_date = <<sync.target_date.year, 12, 31>>
                /\ (fresh_only => r.age_days < 30)
        HasRow(t, s) == \E r \in before[t] : r.symbol = s
        Needs(s) ==
            /\ ~IsCompleted(s)
            /\ \/ ~HasFinancials(s)
               \/ ~HasRow("valuations", s)
               \/ ~HasRow("technical_indicators", s)
    IN  SelectSeq(sync.symbols, Needs)

StatusChain(symbol) ==
    LET Of(w) == w[1] = symbol
        ws == SelectSeq(sync.writes, Of)
    IN  <<"none">> \o [i \in 1..Len(ws) |-> ws[i][2]]

LedgerSteps ==
    {<<"none", "pending">>, <<"pending", "processing">>,
     <<"processing", "completed">>, <<"processing", "failed">>}

\* C13: in a session the status of a symbol's ledger row only moves along
\* none -> pending -> processing -> completed or failed, and the rows that are
\* completed or failed stay as they are.
C13_LedgerFollowsStateMachine ==
    (sync.op = "sync_extended") =>
        /\ \A symbol \in Range(sync.symbols) :
            LET chain == StatusChain(symbol)
            IN  \A i \in 1..(Len(chain) - 1) : <<chain[i], chain[i + 1]>> \in LedgerSteps
        /\ \A r \in sync.before.extended_sync_status :
            r.status \in {"completed", "failed"} => r \in syncdb.extended_sync_status

\* ---- run_full_sync: what the last call did
FullRun == sync.op = "run_full_sync"

RanNames == {sync.ran[i][1] : i \in DOMAIN sync.ran}

CallNames == {sync.calls[i][1] : i \in DOMAIN sync.calls}

Returned == FullRun /\ sync.result.success

Phases == sync.result.data.phases

Summary == sync.result.data.summary

\* the symbols the run worked on: those handed to the incremental sync
RunSymbols == (CHOOSE i \in DOMAIN sync.calls : sync.calls[i][1] = "sync_all_symbols")

PhaseFailed(name) ==
    /\ name \in DOMAIN Phases
    /\ Phases[name] = [status |-> "failed", error |-> "error"]

\* the phases after the planning pass have run (validation when enabled)
LaterPhasesRan ==
    /\ "planning" \in RanNames
    /\ "extended_data_sync" \in DOMAIN Phases
    /\ "gap_detection" \in RanNames
    /\ sync.fault.enable_validation => "validation" \in RanNames

C17_PlanningFailurePropagates ==
    (FullRun /\ sync.target_date # NoDate /\ sync.env.plan_fault # "none") =>
        /\ sync.raised
        /\ sync.result = [success |-> FALSE, error |-> "Exception"]
        /\ sync.ran[Len(sync.ran)][1] = "planning"
        /\ RanNames \cap {"extended_data_sync", "gap_detection", "gap_fix", "validation"} = {}
        /\ CallNames \cap {"get_fundamentals", "get_valuation_data", "get_daily_data"} = {}
        /\ sync.writes = <<>>
        /\ nsessions = 0

C17_Witness ==
    /\ FullRun
    /\ sync.env.plan_fault = "completed"
    /\ sync.raised
    /\ "incremental_sync" \in RanNames
    /\ sync.ran[Len(sync.ran)][1] = "planning"

\* the planning pass of the run, recomputed on the store the run found (the
\* phases before it write the calendar only)
PlanOfRun ==
    get_extended_data_symbols_to_process(
        sync.before, sync.calls[RunSymbols][2],
        (CHOOSE e \in {sync.ran[i] : i \in DOMAIN sync.ran} : e[1] = "planning")[2],
        "none").result

\* C18: when the planning pass returns no symbols, extended_data_sync is
\* recorded as skipped and counted as a successful phase, and
\* _sync_extended_data is not called: no ledger row is written and the
\* provider is not asked for extended data.
C18_EmptyPlanSkipsExtendedSync ==
    (Returned /\ PlanOfRun = <<>>) =>
        /\ Phases["extended_data_sync"].status = "skipped"
        /\ "extended_data_sync" \notin RanNames
        /\ Summary.successful_phases =
                Cardinality({name \in DOMAIN Phases \ {"gap_fix"} :
                                "error" \notin DOMAIN Phases[name]
                                    /\ name # "gap_detection"})
                + (IF sync.env.detect = "ok" THEN 1 ELSE 0)
        /\ sync.writes = <<>>
        /\ nsessions = 0
        /\ syncdb.extended_sync_status \subseteq sync.before.extended_sync_status
        /\ CallNames \cap {"get_fundamentals", "get_valuation_data"} = {}

C18_Witness ==
    /\ Returned
    /\ PlanOfRun = <<>>
    /\ sync.symbols = <<"000001.SZ", "600000.SH">>
    /\ Phases["extended_data_sync"].status = "skipped"
    /\ sync.before.extended_sync_status # {}
    /\ Summary.successful_phases = 6

\* ---- _auto_fix_gaps: what the last call did
FixRun == sync.op = "auto_fix_gaps"

DataRequests ==
    {i \in DOMAIN sync.calls : sync.calls[i][1] = "get_daily_data"}

\* the gaps of the detection, daily ones first
DetectedList ==
    sync.env.gaps_by_frequency[1][2] \o sync.env.gaps_by_frequency[2][2]

\* the listing date of a symbol is stored and the day is before it
BeforeListing(symbol, day) ==
    \E r \in sync.before.stocks :
        /\ r.symbol = symbol
        /\ r.list_date # NoListDate
        /\ \/ day[1] < r.list_date[1]
           \/ day[1] = r.list_date[1] /\ day[2] < r.list_date[2]
           \/ day[1] = r.list_date[1] /\ day[2] = r.list_date[2]
                /\ day[3] < r.list_date[3]

EarlyGaps ==
    {i \in DOMAIN DetectedList :
        /\ DetectedList[i].frequency = "1d"
        /\ BeforeListing(DetectedList[i].symbol, DetectedList[i].start_date)}

\* C19: one repair run asks the provider for the data of at most 10 gaps,
\* however many were detected, and never for a gap that starts before the
\* stock's listing date: such a gap is counted as skipped, not as attempted.
C19_RepairBoundedAndAfterListing ==
    FixRun =>
        /\ Cardinality(DataRequests) <= 10
        /\ \A i \in DataRequests :
            ~BeforeListing(sync.calls[i][2], sync.calls[i][3])
        /\ sync.result.attempted_fixes = Cardinality(DataRequests)
        /\ sync.result.skipped_fixes <= Cardinality(EarlyGaps)
        /\ (~sync.raised /\ Cardinality(DataRequests) < 10)
                => sync.result.skipped_fixes = Cardinality(EarlyGaps)

C19_Witness ==
    /\ FixRun
    /\ ~sync.raised
    /\ sync.env.summary.total_gaps > 12
    /\ Cardinality(DataRequests) = 10
    /\ sync.result.skipped_fixes = 1
    /\ EarlyGaps # {}

\* ---- _update_trading_calendar: what the last call did
StoredYears(store) == {r.date[1] : r \in store.trading_calendar}

NeededYears(target_date) ==
    {target_date.year - 1, target_date.year, target_date.year + 1}

\* the needed years outside the span of the years the store held
UncoveredYears(store, target_date) ==
    {y \in NeededYears(target_date) :
        \/ StoredYears(store) = {}
        \/ \A z \in StoredYears(store) : y < z
        \/ \A z \in StoredYears(store) : y > z}

\* C20: _update_trading_calendar requests only the years among
\* target_date.year-1 .. target_date.year+1 outside the span of the stored
\* years, each once, and all of them unless a request raises; with all three
\* inside the span it returns skipped with updated_records 0, requests nothing
\* and leaves the store alone, so that the call repeated after an update in
\* which every requested year was served requests nothing.
C20_CalendarOnlyExtended ==
    [][sync'.op = "update_trading_calendar" =>
        LET requested == {sync'.calls[i][2] : i \in DOMAIN sync'.calls}
            uncovered == UncoveredYears(syncdb, sync'.target_date)
        IN  /\ sync'.before = syncdb
            /\ \A i \in DOMAIN sync'.calls : sync'.calls[i][1] = "get_trade_calendar"
            /\ requested \subseteq uncovered
            /\ Cardinality(requested) = Len(sync'.calls)
            /\ (\A y \in requested : sync'.env[y] # "raise") => requested = uncovered
            /\ uncovered = {} =>
                /\ ~sync'.raised
                /\ sync'.result.status = "skipped"
                /\ sync'.result.updated_records = 0
                /\ sync'.calls = <<>>
                /\ syncdb' = syncdb
            /\ (/\ sync.op = "update_trading_calendar"
                /\ sync.target_date = sync'.target_date
                /\ ~sync.raised
                /\ \A i \in DOMAIN sync.calls :
                        sync.env[sync.calls[i][2]] \in {"list", "dict"})
                    => sync'.calls = <<>> /\ sync'.result.status = "skipped"]_vars

\* a second call that is skipped over a calendar the first call extended
C20_Witness ==
    /\ sync.op = "update_trading_calendar"
    /\ sync.ncalls = 2
    /\ Cardinality(StoredYears(sync.before)) = 4
    /\ sync.result.status = "skipped"
    /\ sync.result.updated_records = 0
    /\ sync.calls = <<>>

\* C21: in every result returned by run_full_sync,
\* summary.total_phases = summary.successful_phases + summary.failed_phases:
\* each executed phase is counted once, as successful or as failed.
C21_PhaseCountsAddUp ==
    Returned =>
        Summary.total_phases = Summary.successful_phases + Summary.failed_phases

\* ---- _sync_extended_data: what the last call did
ExtRun == sync.op = "sync_extended"

\* the provider raised while the call was processing its sync.fault-th symbol
ProviderFailed == ExtRun /\ sync.fault \in 1..Len(sync.symbols)

\* C29: a provider error while processing one symbol of the extended-data sync
\* is isolated: the call does not raise, counts the symbol in failed_symbols,
\* and still processes the remaining symbols of the batch.
C29_ProviderErrorIsolated ==
    ProviderFailed =>
        /\ ~sync.raised
        /\ sync.result.failed_symbols >= 1
        /\ \A i \in DOMAIN sync.symbols :
            \E k \in DOMAIN sync.calls :
                sync.calls[k] = <<"get_fundamentals", sync.symbols[i]>>

\* C30: when the processing of a symbol ends, normally or with an error, its
\* ledger row for the session is completed or failed: the call leaves no row
\* of its session in processing.
C30_NoRowLeftProcessing ==
    ExtRun =>
        \A r \in syncdb.extended_sync_status :
            r.session_id = nsessions => r.status \in {"completed", "failed"}

\* ================================================================ SpecVal
\* DataValidator over a market_data table of at most MaxValRows rows.
ValSymbols == {"000001.SZ", "600000.SH"}

ValDays == {1, 2}

\* open, high, low, close of a row: open present or not, high and low in
\* order, crossed or with a zero low, close present or not
PriceTuples ==
    {<<o, Some(hl[1]), Some(hl[2]), Some(13)>> :
        o \in {NoValue, Some(10)}, hl \in {<<13, 10>>, <<10, 13>>, <<13, 0>>}}
    \cup {<<Some(10), Some(13), Some(10), NoValue>>}

\* volume, quality_score, prev_close of a row
OtherColumns ==
    {<<v, Some(60), NoValue>> : v \in {NoValue, Some(-1), Some(50)}}
    \cup {<<Some(100), q, p>> : q \in {NoValue, Some(50), Some(60)}, p \in {Some(0), Some(10)}}

GoodPrices == <<Some(10), Some(13), Some(10), Some(13)>>

GoodColumns == <<Some(100), Some(60), NoValue>>

MarketRow(symbol, d, prices, columns) ==
    [symbol |-> symbol, date |-> d, frequency |-> "1d",
     open |-> prices[1], high |-> prices[2], low |-> prices[3], close |-> prices[4],
     volume |-> columns[1], quality_score |-> columns[2], prev_close |-> columns[3]]

\* the rows a store may hold: any prices with sound other columns, or sound
\* prices with any other columns
ValRows ==
    {MarketRow(s, d, prices, GoodColumns) : s \in ValSymbols, d \in ValDays, prices \in PriceTuples}
    \cup {MarketRow(s, d, GoodPrices, columns) : s \in ValSymbols, d \in ValDays, columns \in OtherColumns}

ValRanges == {<<1, 2>>, <<2, 2>>}

\* start_date, end_date and frequency of a validate_symbol_data call
ValCalls == {<<1, 2, "1d">>, <<2, 2, "1d">>, <<1, 2, "5m">>}

InitVal ==
    /\ IdleBW
    /\ IdleGap
    /\ IdleSync
    /\ IdlePerf
    /\ IdleConn
    /\ market_data = {}
    /\ val = NoVal

\* the writer stores a row; (symbol, date, frequency) is the table's key
InsertRow(row) ==
    /\ Cardinality(market_data) < MaxValRows
    /\ \A r \in market_data : <<r.symbol, r.date, r.frequency>> # <<row.symbol, row.date, row.frequency>>
    /\ market_data' = market_data \cup {row}
    /\ val' = NoVal
    /\ UNCHANGED <<bwVars, gapVars, syncVars, connVars, perfVars>>

ValidateSymbolData(symbol, start_date, end_date, frequency) ==
    /\ \E result \in {validate_symbol_data(market_data, symbol, start_date, end_date, frequency)} :
        val' = [op |-> "validate_symbol_data", symbols |-> <<symbol>>,
                start_date |-> start_date, end_date |-> end_date, frequency |-> frequency,
                records |-> <<get_symbol_data(market_data, symbol, start_date, end_date, frequency)>>,
                results |-> <<result>>, result |-> result]
    /\ UNCHANGED market_data
    /\ UNCHANGED <<bwVars, gapVars, syncVars, connVars, perfVars>>

ValidateFrequencyData(symbols, start_date, end_date, frequency) ==
    /\ val' = [op |-> "validate_frequency_data", symbols |-> symbols,
               start_date |-> start_date, end_date |-> end_date, frequency |-> frequency,
               records |-> [i \in 1..Len(symbols) |->
                    get_symbol_data(market_data, symbols[i], start_date, end_date, frequency)],
               results |-> [i \in 1..Len(symbols) |->
                    validate_symbol_data(market_data, symbols[i], start_date, end_date, frequency)],
               result |-> validate_frequency_data(market_data, symbols, start_date, end_date, frequency)]
    /\ UNCHANGED market_data
    /\ UNCHANGED <<bwVars, gapVars, syncVars, connVars, perfVars>>

NextVal ==
    \/ \E row \in ValRows : InsertRow(row)
    \/ \E symbol \in ValSymbols, call \in ValCalls :
        ValidateSymbolData(symbol, call[1], call[2], call[3])
    \/ \E range \in ValRanges :
        ValidateFrequencyData(<<"000001.SZ", "600000.SH">>, range[1], range[2], "1d")

SpecVal == InitVal /\ [][NextVal]_vars

\* ---- validate_symbol_data: what the last call did
SymbolRun == val.op = "validate_symbol_data"

FrequencyRun == val.op = "validate_frequency_data"

\* the records the call fetched for its i-th symbol, and the issues of one of them
Fetched(i) == val.records[i]

IssuesOfType(issues, issue_type) ==
    {k \in DOMAIN issues : issues[k].issue_type = issue_type}

\* the stored rows the query of the i-th symbol selects
SelectedRows(i) ==
    {r \in market_data :
        /\ r.symbol = val.symbols[i]
        /\ r.frequency = val.frequency
        /\ val.start_date <= r.date
        /\ r.date <= val.end_date}

HighBelowLow(record) ==
    /\ record.high # NoValue
    /\ record.low # NoValue
    /\ record.high[1] < record.low[1]

AllPricesPresent(record) ==
    \A f \in {"open", "high", "low", "close"} : record[f] # NoValue

\* every fetched record is counted in total_records and once in valid_records
\* or invalid_records
CountedOnce(i) ==
    LET result == val.results[i]
        flagged == {k \in DOMAIN Fetched(i) : validate_record(Fetched(i)[k]) # <<>>}
    IN  /\ result.total_records = Cardinality(SelectedRows(i))
        /\ result.total_records = Len(Fetched(i))
        /\ result.invalid_records = Cardinality(flagged)
        /\ result.valid_records = Len(Fetched(i)) - Cardinality(flagged)
        /\ result.valid_records + result.invalid_records = result.total_records

\* each issue of each record of each symbol adds one to the tally of its type
TalliedOnce ==
    \A t \in IssueTypes :
        val.result.issue_types[t] =
            SumSeq([i \in DOMAIN val.results |->
                Cardinality(IssuesOfType(val.results[i].issues, t))])

\* the issues of the record's trade date in the result of the i-th symbol
FlaggedAs(i, record, issue_type) ==
    \E k \in DOMAIN val.results[i].issues :
        /\ val.results[i].issues[k].issue_type = issue_type
        /\ val.results[i].issues[k].trade_date = record.trade_date

C23_ExtremeChangeFlagged ==
    SymbolRun =>
        \A r \in SelectedRows(1) :
            (/\ r.close # NoValue
             /\ r.prev_close # NoValue
             /\ r.prev_close[1] > 0
             /\ ExceedsCeiling(r.close[1], r.prev_close[1]))
                => FlaggedAs(1, FetchedRecord(r), "extreme_change")

\* ================================================================ SpecPerf
\* PerformanceMonitor driven by at most MaxPerfCalls start_phase, end_phase
\* and reset calls, with record_metric and generate_report calls in between.
PhaseNames == {"download", "write"}

EndCounts == {0, 5}

InitPerf ==
    /\ IdleBW
    /\ IdleGap
    /\ IdleSync
    /\ IdleVal
    /\ IdleConn
    /\ perf = NewMonitor
    /\ pm = NoCall

Logged(op, name, outcome, records_count) ==
    Append(pm.log, [op |-> op, name |-> name, ret |-> outcome, records_count |-> records_count])

StartPhase(name) ==
    /\ Len(pm.log) < MaxPerfCalls
    /\ \E run \in {start_phase(perf, name)} :
        /\ perf' = run.monitor
        /\ pm' = [NoCall EXCEPT !.op = "start_phase", !.name = name, !.ret = run.ret,
                                !.before = perf,
                                !.log = Logged("start_phase", name, run.ret, 0)]
    /\ UNCHANGED <<bwVars, gapVars, syncVars, valVars, connVars>>

EndPhase(name, records_count) ==
    /\ Len(pm.log) < MaxPerfCalls
    /\ \E run \in {end_phase(perf, name, records_count)} :
        /\ perf' = run.monitor
        /\ pm' = [NoCall EXCEPT !.op = "end_phase", !.name = name,
                                !.records_count = records_count, !.ret = run.ret,
                                !.before = perf,
                                !.log = Logged("end_phase", name, run.ret, records_count)]
    /\ UNCHANGED <<bwVars, gapVars, syncVars, valVars, connVars>>

RecordMetric(name, value, phase) ==
    /\ \E run \in {record_metric(perf, name, value, phase)} :
        /\ perf' = run.monitor
        /\ pm' = [NoCall EXCEPT !.op = "record_metric", !.name = name, !.value = value,
                                !.phase = phase, !.ret = run.ret, !.before = perf,
                                !.log = pm.log]
    /\ UNCHANGED <<bwVars, gapVars, syncVars, valVars, connVars>>

GenerateReport ==
    /\ pm' = [NoCall EXCEPT !.op = "generate_report", !.before = perf,
                            !.report = generate_report(perf), !.log = pm.log]
    /\ UNCHANGED perf
    /\ UNCHANGED <<bwVars, gapVars, syncVars, valVars, connVars>>

Reset ==
    /\ Len(pm.log) < MaxPerfCalls
    /\ perf' = reset(perf)
    /\ pm' = [NoCall EXCEPT !.op = "reset", !.before = perf,
                            !.log = Logged("reset", "-", FALSE, 0)]
    /\ UNCHANGED <<bwVars, gapVars, syncVars, valVars, connVars>>

NextPerf ==
    \/ \E name \in PhaseNames : StartPhase(name)
    \/ \E name \in PhaseNames, records_count \in EndCounts : EndPhase(name, records_count)
    \/ \E phase \in {"download"} : RecordMetric("rows", 1, phase)
    \/ GenerateReport
    \/ Reset

SpecPerf == InitPerf /\ [][NextPerf]_vars

\* ---- the monitor's calls since the last reset, read from the log
LastReset ==
    LET resets == {k \in DOMAIN pm.log : pm.log[k].op = "reset"}
    IN  IF resets = {} THEN 0 ELSE CHOOSE k \in resets : \A j \in resets : j <= k

SinceReset == SubSeq(pm.log, LastReset + 1, Len(pm.log))

RECURSIVE FirstOccurrences(_)
FirstOccurrences(names) ==
    IF names = <<>> THEN <<>>
    ELSE LET earlier == FirstOccurrences(SubSeq(names, 1, Len(names) - 1))
             last == names[Len(names)]
         IN  IF last \in Range(earlier) THEN earlier ELSE Append(earlier, last)

\* the phases started since the last reset, in the order of their first start_phase
FirstStartOrder ==
    LET starts == SelectSeq(SinceReset, LAMBDA e : e.op = "start_phase")
    IN  FirstOccurrences([k \in DOMAIN starts |-> starts[k].name])

LastStart(name) ==
    LET at == {k \in DOMAIN SinceReset :
                SinceReset[k].op = "start_phase" /\ SinceReset[k].name = name}
    IN  CHOOSE k \in at : \A j \in at : j <= k

\* the end_phase calls that ended the phase's latest start
EndsOf(name) ==
    {k \in DOMAIN SinceReset :
        /\ k > LastStart(name)
        /\ SinceReset[k].op = "end_phase"
        /\ SinceReset[k].name = name
        /\ SinceReset[k].ret}

EndedNames == SelectSeq(FirstStartOrder, LAMBDA name : EndsOf(name) # {})

RestartedNames ==
    {name \in Range(FirstStartOrder) :
        Cardinality({k \in DOMAIN SinceReset :
            SinceReset[k].op = "start_phase" /\ SinceReset[k].name = name}) > 1}

\* an end_phase call on a phase never started, or already ended
RejectedEnd ==
    /\ pm.op = "end_phase"
    /\ \/ pm.name \notin DOMAIN pm.before.phases
       \/ pm.before.phases[pm.name].end_time # NoValue

\* C27: end_phase on a phase that was never started or is already ended
\* returns False and changes nothing (end time, duration and record count of
\* an ended phase are kept), and the monitor stays usable: start_phase after
\* such a call starts the phase and end_phase of a running phase ends it.
C27_RejectedEndChangesNothing ==
    /\ RejectedEnd => ~pm.ret /\ perf = pm.before
    /\ (pm.op = "end_phase" /\ ~RejectedEnd) =>
        /\ pm.ret
        /\ perf.phases[pm.name].end_time # NoValue
        /\ perf.phases[pm.name].records_count = pm.records_count
    /\ pm.op = "start_phase" =>
        /\ pm.ret
        /\ perf.phases[pm.name].end_time = NoValue

\* end_phase with another record count on a phase already ended
C27_Witness ==
    /\ RejectedEnd
    /\ pm.name \in DOMAIN pm.before.phases
    /\ pm.before.phases[pm.name].records_count # pm.records_count
    /\ ~pm.ret

\* C28: generate_report lists exactly the phases that have been ended, each
\* once, in the order of their first start_phase; a phase started (or started
\* again) and not yet ended is not in the report and adds nothing to
\* total_records.
C28_ReportListsEndedPhases ==
    pm.op = "generate_report" =>
        /\ [k \in DOMAIN pm.report.phases |-> pm.report.phases[k].name] = EndedNames
        /\ pm.report.total_records =
            SumSeq([k \in DOMAIN EndedNames |->
                SinceReset[CHOOSE e \in EndsOf(EndedNames[k]) : TRUE].records_count])

\* a report of one phase out of two started: the phase started first was
\* ended with records and started again, the other was ended
C28_Witness ==
    /\ pm.op = "generate_report"
    /\ Len(FirstStartOrder) = 2
    /\ EndedNames = <<FirstStartOrder[2]>>
    /\ FirstStartOrder[1] \in RestartedNames
    /\ \E k \in DOMAIN SinceReset :
        /\ SinceReset[k].op = "end_phase"
        /\ SinceReset[k].name = FirstStartOrder[1]
        /\ SinceReset[k].ret
        /\ SinceReset[k].records_count > 0

\* ================================================================ SpecConn
\* ConnectionManager shared by the threads of Threads.  A thread uses the
\* manager as its callers do: acquire_lock, on True the provider access and
\* then release_lock; or heartbeat.  The clock advances by
\* Tick; a call is started only if its deadline lies within MaxNow.
\* The manager is created over an adapter that is connected or not.
LockTimeouts == {NoValue, Some(0)}

InitConn ==
    /\ IdleBW
    /\ IdleGap
    /\ IdleSync
    /\ IdleVal
    /\ IdlePerf
    /\ \E connected \in BOOLEAN :
        conn = [m |-> [NewManager EXCEPT !.adapter.connected = connected],
                ghost |-> NoGhost]
    /\ threads = [t \in Threads |-> IdleThread]

Holding(t) == threads[t].pc \in {"holding", "probing", "probed"}

\* acquire_lock(timeout) is called: the thread enters _lock.acquire
AcquireCall(t, timeout) ==
    /\ threads[t].pc = "idle"
    /\ conn.ghost.started < MaxLockCalls
    /\ conn.m.now + EffectiveTimeout(timeout) <= MaxNow
    /\ threads' = [threads EXCEPT ![t] =
            [IdleThread EXCEPT !.pc = "acquiring", !.op = "acquire_lock",
                               !.deadline = conn.m.now + EffectiveTimeout(timeout)]]
    /\ conn' = [conn EXCEPT !.ghost.started = @ + 1]
    /\ UNCHANGED <<bwVars, gapVars, syncVars, valVars, perfVars>>

\* _lock.acquire returns True; access_count is counted by the new holder
LockAcquired(t) ==
    /\ threads[t].pc = "acquiring"
    /\ CanAcquire(conn.m)
    /\ conn' = [conn EXCEPT !.m.lock = TRUE, !.m.stats.access_count = @ + 1,
                            !.ghost.acquired = @ + 1]
    /\ threads' = [threads EXCEPT ![t].pc = IF threads[t].op = "heartbeat" THEN "probing"
                                            ELSE "holding",
                                  ![t].deadline = 0,
                                  ![t].ret = threads[t].op = "acquire_lock"]
    /\ UNCHANGED <<bwVars, gapVars, syncVars, valVars, perfVars>>

\* _lock.acquire returns False at its deadline; the thread loads
\* lock_timeout_count, the first half of "+= 1"
LockTimedOut(t) ==
    /\ threads[t].pc = "acquiring"
    /\ ~CanAcquire(conn.m)
    /\ conn.m.now >= threads[t].deadline
    /\ threads' = [threads EXCEPT ![t].pc = "counting", ![t].deadline = 0,
                                  ![t].read = conn.m.stats.lock_timeout_count]
    /\ UNCHANGED conn
    /\ UNCHANGED <<bwVars, gapVars, syncVars, valVars, perfVars>>

\* the thread stores the incremented count and acquire_lock returns False;
\* a heartbeat that called it returns False too
CountTimeout(t) ==
    /\ threads[t].pc = "counting"
    /\ conn' = [conn EXCEPT !.m.stats.lock_timeout_count = threads[t].read + 1,
                            !.ghost.timeouts = @ + 1]
    /\ threads' = [threads EXCEPT ![t].pc = "idle", ![t].ret = FALSE, ![t].read = 0]
    /\ UNCHANGED <<bwVars, gapVars, syncVars, valVars, perfVars>>

\* release_lock by the holder
ReleaseLock(t) ==
    /\ threads[t].pc = "holding"
    /\ conn' = [conn EXCEPT !.m.lock = FALSE]
    /\ threads' = [threads EXCEPT ![t].pc = "idle"]
    /\ UNCHANGED <<bwVars, gapVars, syncVars, valVars, perfVars>>

\* heartbeat is called: it returns True at once when the last access is
\* recent, and calls acquire_lock() otherwise
Heartbeat(t) ==
    /\ threads[t].pc = "idle"
    /\ conn.ghost.started < MaxLockCalls
    /\ IF HeartbeatNotDue(conn.m)
       THEN /\ threads' = [threads EXCEPT ![t] =
                    [IdleThread EXCEPT !.op = "heartbeat", !.ret = TRUE]]
            /\ UNCHANGED conn
       ELSE /\ conn.m.now + LockTimeout <= MaxNow
            /\ threads' = [threads EXCEPT ![t] =
                    [IdleThread EXCEPT !.pc = "acquiring", !.op = "heartbeat",
                                       !.deadline = conn.m.now + LockTimeout]]
            /\ conn' = [conn EXCEPT !.ghost.started = @ + 1]
    /\ UNCHANGED <<bwVars, gapVars, syncVars, valVars, perfVars>>

\* the probe query of heartbeat, made while holding the lock
Probe(t, outcome) ==
    /\ threads[t].pc = "probing"
    /\ IF outcome = "ok"
       THEN conn' = [conn EXCEPT !.m.stats.last_heartbeat_time = Some(conn.m.now),
                                 !.m.last_access_time = Some(conn.m.now)]
       ELSE UNCHANGED conn
    /\ threads' = [threads EXCEPT ![t].pc = "probed", ![t].raised = outcome = "raise"]
    /\ UNCHANGED <<bwVars, gapVars, syncVars, valVars, perfVars>>

\* the heartbeat that returns without its finally clause
HeartbeatReturnKeepsLock(t) ==
    /\ threads[t].pc = "probed"
    /\ conn' = [conn EXCEPT !.m.adapter.connected = IF threads[t].raised THEN FALSE ELSE @]
    /\ threads' = [threads EXCEPT ![t].pc = "idle", ![t].ret = ~threads[t].raised,
                                  ![t].raised = FALSE]
    /\ UNCHANGED <<bwVars, gapVars, syncVars, valVars, perfVars>>

\* heartbeat's finally releases the lock; after a raising probe the except
\* clause marks the adapter disconnected and heartbeat returns False
HeartbeatReturn(t) ==
    /\ threads[t].pc = "probed"
    /\ conn' = [conn EXCEPT !.m.lock = FALSE,
                            !.m.adapter.connected = IF threads[t].raised THEN FALSE ELSE @]
    /\ threads' = [threads EXCEPT ![t].pc = "idle", ![t].ret = ~threads[t].raised,
                                  ![t].raised = FALSE]
    /\ UNCHANGED <<bwVars, gapVars, syncVars, valVars, perfVars>>

Tick ==
    /\ conn.m.now < MaxNow
    /\ conn' = [conn EXCEPT !.m.now = @ + 1]
    /\ UNCHANGED threads
    /\ UNCHANGED <<bwVars, gapVars, syncVars, valVars, perfVars>>

NextConn ==
    \/ \E t \in Threads, timeout \in LockTimeouts : AcquireCall(t, timeout)
    \/ \E t \in Threads : LockAcquired(t)
    \/ \E t \in Threads : LockTimedOut(t)
    \/ \E t \in Threads : CountTimeout(t)
    \/ \E t \in Threads : ReleaseLock(t)
    \/ \E t \in Threads : Heartbeat(t)
    \/ \E t \in Threads, outcome \in {"ok", "raise"} : Probe(t, outcome)
    \/ \E t \in Threads : HeartbeatReturn(t)
    \/ Tick

SpecConn == InitConn /\ [][NextConn]_vars

\* C24: between a successful acquire_lock and the matching release_lock of
\* one thread no acquire_lock of another thread succeeds: at most one thread
\* is between its acquire and its release, under any interleaving.
C24_LockIsExclusive ==
    /\ \A t, u \in Threads : (Holding(t) /\ Holding(u)) => t = u
    /\ (\E t \in Threads : Holding(t)) => conn.m.lock

\* one thread holds the lock while another waits for it and a third has
\* been refused
C24_Witness ==
    \E t, u, w \in Threads :
        /\ threads[t].pc = "holding"
        /\ threads[u].pc = "acquiring"
        /\ threads[w].op = "acquire_lock" /\ threads[w].pc = "idle" /\ ~threads[w].ret
        /\ conn.ghost.timeouts = 1
        /\ conn.ghost.started = 3

\* acquire_lock calls that have returned False
Refused(t) == threads[t].op = "acquire_lock" /\ threads[t].pc = "idle" /\ ~threads[t].ret

\* C25: an acquire_lock whose lock is not released within the timeout (the
\* argument, or lock_timeout by default) returns False, adds one to
\* lock_timeout_count, leaves access_count unchanged and does not hold the
\* lock afterwards: lock_timeout_count is the number of calls that returned
\* False, access_count the number that returned True, and the lock is held
\* only by a thread whose call returned True.
C25_TimeoutReturnsFalseAndCounts ==
    /\ conn.m.stats.lock_timeout_count = conn.ghost.timeouts
    /\ conn.m.stats.access_count = conn.ghost.acquired
    /\ conn.m.lock => \E t \in Threads : Holding(t)
    /\ \A t \in Threads : Refused(t) => ~Holding(t)

\* ================================================================ SpecSession
\* ensure_connected and disconnect called by one caller (the lock holder)
\* while the clock advances; the adapter starts disconnected, connected by
\* its owner without a connect time, or connected at time 0.
InitialAdapters ==
    {[connected |-> FALSE, last_connect_time |-> NoValue],
     [connected |-> TRUE, last_connect_time |-> NoValue],
     [connected |-> TRUE, last_connect_time |-> Some(0)]}

InitSession ==
    /\ IdleBW
    /\ IdleGap
    /\ IdleSync
    /\ IdleVal
    /\ IdlePerf
    /\ \E adapter \in InitialAdapters :
        conn = [m |-> [NewManager EXCEPT !.adapter = adapter], ghost |-> NoGhost]
    /\ threads = [t \in Threads |-> IdleThread]

EnsureConnected(env) ==
    /\ conn.ghost.started < MaxEnsureCalls
    /\ \E run \in {ensure_connected(conn.m, env)} :
        conn' = [conn EXCEPT !.m = run.conn,
                             !.ghost.started = @ + 1,
                             !.ghost.last = [by |-> "caller", before |-> conn.m, env |-> env,
                                             calls |-> run.calls, ret |-> run.ret]]
    /\ UNCHANGED threads
    /\ UNCHANGED <<bwVars, gapVars, syncVars, valVars, perfVars>>

Disconnect(outcome) ==
    /\ conn.m.adapter.connected
    /\ conn' = [conn EXCEPT !.m = disconnect(conn.m, outcome), !.ghost.last = NoEnsure]
    /\ UNCHANGED threads
    /\ UNCHANGED <<bwVars, gapVars, syncVars, valVars, perfVars>>

SessionTick ==
    /\ conn.m.now < MaxNow
    /\ conn' = [conn EXCEPT !.m.now = @ + 1, !.ghost.last = NoEnsure]
    /\ UNCHANGED threads
    /\ UNCHANGED <<bwVars, gapVars, syncVars, valVars, perfVars>>

NextSession ==
    \/ \E env \in AdapterOutcomes : EnsureConnected(env)
    \/ \E outcome \in {"ok", "raise"} : Disconnect(outcome)
    \/ SessionTick

SpecSession == InitSession /\ [][NextSession]_vars

\* ---- ensure_connected: what the last call did
EnsureRun == conn.ghost.last.by # "-"

CalledOn == conn.ghost.last.before

AdapterCalls == conn.ghost.last.calls

\* the session of the adapter the call found is older than session_timeout
SessionOlder ==
    /\ CalledOn.adapter.last_connect_time # NoValue
    /\ CalledOn.now - CalledOn.adapter.last_connect_time[1] > SessionTimeout

ConnectAttempts == Cardinality({k \in DOMAIN AdapterCalls : AdapterCalls[k] = "connect"})

\* the last adapter call the run made raised
AttemptFailed ==
    /\ AdapterCalls # <<>>
    /\ conn.ghost.last.env[AdapterCalls[Len(AdapterCalls)]] = "raise"

\* C26: ensure_connected calls connect only when the adapter is not connected
\* or its session is older than session_timeout, and then disconnect comes
\* before connect; connected and within the timeout it calls neither. Every
\* connect attempt adds one to reconnect_count, and a failed attempt returns
\* False instead of raising.
C26_ConnectsOnlyWhenNeeded ==
    EnsureRun =>
        /\ ConnectAttempts <= 1
        /\ ConnectAttempts = 1 => (~CalledOn.adapter.connected \/ SessionOlder)
        /\ ~CalledOn.adapter.connected => AdapterCalls = <<"connect">>
        /\ (CalledOn.adapter.connected /\ SessionOlder) =>
            AdapterCalls \in {<<"disconnect">>, <<"disconnect", "connect">>}
        /\ (CalledOn.adapter.connected /\ ~SessionOlder) => AdapterCalls = <<>>
        /\ ConnectAttempts = 1 =>
            conn.m.stats.reconnect_count = CalledOn.stats.reconnect_count + 1
        /\ conn.ghost.last.ret = ~AttemptFailed

\* a reconnect of an expired session whose connect raises: both calls made,
\* the attempt counted, False returned
C26_Witness ==
    /\ EnsureRun
    /\ CalledOn.adapter.connected
    /\ SessionOlder
    /\ AdapterCalls = <<"disconnect", "connect">>
    /\ conn.m.stats.reconnect_count = 2
    /\ ~conn.ghost.last.ret

\* ---- _sync_extended_data: provider requests and completion marks of a session
RequestsFor(request, symbol) ==
    {k \in DOMAIN sync.calls : sync.calls[k] = <<request, symbol>>}

\* the symbols the call marked completed under its session id
MarkedCompleted ==
    {r.symbol : r \in {x \in syncdb.extended_sync_status :
        /\ x.session_id = nsessions
        /\ x.target_date = IsoStr(sync.target_date)
        /\ x.status = "completed"}}

\* C31: within one extended-data session the provider is queried for a symbol
\* at most once: a symbol already marked completed under the session's id is
\* skipped, even when it occurs more than once in the input list.
C31_ProviderQueriedOncePerSymbol ==
    ExtRun =>
        /\ \A symbol \in Symbols :
            /\ Cardinality(RequestsFor("get_fundamentals", symbol)) <= 1
            /\ Cardinality(RequestsFor("get_valuation_data", symbol)) <= 1
        /\ ~sync.raised => sync.result.processed_symbols = Len(sync.symbols)

\* a session over a list naming one symbol twice: one request, two processed
C31_Witness ==
    /\ ExtRun
    /\ ~sync.raised
    /\ sync.symbols = <<"000001.SZ", "000001.SZ">>
    /\ Cardinality(RequestsFor("get_fundamentals", "000001.SZ")) = 1
    /\ sync.result.processed_symbols = 2

\* C32: whenever _sync_extended_data marks a ledger row completed for
\* (symbol, target_date), the store holds a financials row of the target
\* year's report date, a valuations row and a technical_indicators row for
\* that symbol.
C32_CompletedMeansAllWritten ==
    ExtRun =>
        \A symbol \in MarkedCompleted :
            /\ \E r \in syncdb.financials :
                r.symbol = symbol /\ r.report_date = ReportDate(sync.target_date)
            /\ \E r \in syncdb.valuations : r.symbol = symbol
            /\ \E r \in syncdb.technical_indicators : r.symbol = symbol

\* --------------------------------------------------------------- SpecResume
\* The extended-data phase of run_full_sync, run after run: a planning pass
\* over the requested symbols, then a session over the symbols it returned.
\* A session may die on a provider error; the next run plans again over the
\* ledger the dead session left.
InitResume == InitExt

ResumePlan ==
    /\ nsessions < MaxSessions
    /\ sync.op # "plan"
    /\ \E symbols \in SymbolLists \ {<<>>} :
        \E r \in {get_extended_data_symbols_to_process(syncdb, symbols, TestDate, "none")} :
            /\ syncdb' = r.store
            /\ sync' = [NoSync EXCEPT !.op = "plan", !.symbols = symbols,
                            !.target_date = TestDate, !.raised = r.raised,
                            !.result = r.result, !.before = syncdb]
    /\ UNCHANGED nsessions
    /\ UNCHANGED <<bwVars, gapVars, moreVars>>

\* if symbols_to_process: self._sync_extended_data(symbols_to_process, ...)
ResumeSync ==
    /\ sync.op = "plan"
    /\ sync.result # <<>>
    /\ \E provider \in Providers, fail_at \in 0..2 :
        \E r \in {sync_extended_data(syncdb, sync.result, TestDate, nsessions + 1,
                                     provider, fail_at)} :
            /\ syncdb' = r.store
            /\ nsessions' = nsessions + 1
            /\ sync' = [NoSync EXCEPT !.op = "sync_extended", !.symbols = sync.result,
                            !.target_date = TestDate, !.fault = fail_at,
                            !.raised = r.raised, !.result = r.result,
                            !.writes = r.writes, !.calls = r.calls,
                            !.before = syncdb]
    /\ UNCHANGED <<bwVars, gapVars, moreVars>>

NextResume == ResumePlan \/ ResumeSync

SpecResume == InitResume /\ [][NextResume]_vars

\* the rows of the ledger for the symbol and the target date
RowsOf(ledger, symbol, target_date) ==
    {r \in ledger : r.symbol = symbol /\ r.target_date = IsoStr(target_date)}

\* the symbol's authoritative row, the one of the most recent session, is in
\* processing: the session that wrote it died
LeftInProcessing(ledger, symbol, target_date) ==
    \E r \in RowsOf(ledger, symbol, target_date) :
        /\ r.status = "processing"
        /\ \A x \in RowsOf(ledger, symbol, target_date) : x.session_id <= r.session_id

\* one of the symbol's three data sets has no row
DataMissing(store, symbol, target_date) ==
    \/ \A r \in store.financials :
            r.symbol # symbol \/ r.report_date # ReportDate(target_date)
    \/ \A r \in store.valuations : r.symbol # symbol
    \/ \A r \in store.technical_indicators : r.symbol # symbol

BuffersBelowBatchSize == \A t \in Tables : Len(buffer[t]) < batch_size

\* Every store fault adds one to failed_batches: the store has not failed when
\* no flush has failed, or when the only failed flush is the one of the call
\* just made and the store did not raise in it.
StoreNeverFailed ==
    \/ stats.failed_batches = 0
    \/ stats.failed_batches = 1 /\ ret.raised /\ ret.faults = {}

\* C34 (as stated): with auto_flush enabled and a store whose writes succeed,
\* after every add_record each table's buffer holds fewer than batch_size
\* records.
C34_BuffersBelowBatchSize ==
    (auto_flush /\ ret.op = "add_record" /\ StoreNeverFailed) => BuffersBelowBatchSize

\* C34: with auto_flush enabled, every buffer holds fewer than batch_size
\* records as long as no flush has failed, and an add_record that returns
\* leaves the buffer of its table below batch_size whatever happened before.
C34_BuffersBelowWhileFlushesSucceed ==
    auto_flush =>
        /\ stats.failed_batches = 0 => BuffersBelowBatchSize
        /\ (ret.op = "add_record" /\ ~ret.raised) =>
                Len(buffer[ret.table]) < batch_size

\* an add_record flushed its table while the other table holds a record
C34_Witness ==
    /\ auto_flush
    /\ ret.op = "add_record"
    /\ ~ret.raised
    /\ stats.failed_batches = 0
    /\ Len(ret.batch) = batch_size
    /\ buffer[ret.table] = <<>>
    /\ \E t \in Tables \ {ret.table} : Len(buffer[t]) = batch_size - 1

\* C35: when the automatic flush inside add_record fails, add_record raises
\* with the new record kept in the buffer and nothing else changed but the
\* failure count; every add_record that finds the buffer at or above
\* batch_size attempts the flush of the whole buffer, and the attempt that
\* succeeds persists every record of it.
C35_FailedAutoFlushIsRetried ==
    [][(ret'.op = "add_record" /\ auto_flush) =>
        LET t == ret'.table
            whole == buffer[t] \o ret'.data
        IN  /\ ret'.raised =>
                /\ buffer' = [buffer EXCEPT ![t] = whole]
                /\ db' = db
                /\ stats' = [stats EXCEPT !.failed_batches = @ + 1]
            /\ Len(whole) >= batch_size =>
                /\ ret'.batch = whole
                /\ ~ret'.raised =>
                    /\ buffer'[t] = <<>>
                    /\ Persisted(db'[t], whole)
                    /\ stats'.total_records = stats.total_records + Len(whole)]_vars

\* the add_record after a failed automatic flush flushed the whole buffer
C35_Witness ==
    /\ auto_flush
    /\ ret.op = "add_record"
    /\ ~ret.raised
    /\ stats.failed_batches = 1
    /\ Len(ret.batch) = batch_size + 1
    /\ buffer[ret.table] = <<>>
    /\ stats.total_records = batch_size + 1

\* ---- GapDetector: gaps under a calendar without weekend sessions
\* no Saturday and no Sunday is a trading day of the detector's market
WeekendsNeverTraded == \A d \in Days : IsTradingDay(d) => Weekday(d) < 5

\* C36: with a trading calendar in which Saturdays and Sundays are never
\* trading days, every gap reported by detect_symbol_gaps spans at most 5
\* calendar days, so the severity critical is never reported however many
\* consecutive trading days are missing.
C36_NoCriticalGapWithoutWeekendSessions ==
    (out.op = "detect_symbol_gaps" /\ WeekendsNeverTraded) =>
        \A i \in 1..Len(out.gaps) :
            /\ out.gaps[i].gap_days <= 5
            /\ Cardinality(GapSpan(out.gaps[i])) <= 5
            /\ out.gaps[i].severity # "critical"

\* six consecutive trading days are missing, Monday to the Monday after: a
\* gap of 5 days, high, and a gap of 1 day
C36_Witness ==
    /\ out.op = "detect_symbol_gaps"
    /\ WeekendsNeverTraded
    /\ MissingSeen = {0, 1, 2, 3, 4, 7}
    /\ Len(out.gaps) = 2
    /\ out.gaps[1].gap_days = 5
    /\ out.gaps[1].severity = "high"
    /\ out.gaps[2].start_date = DateStr(7)

\* C37: if reading the symbol's stored dates from market_data fails,
\* detect_symbol_gaps does not raise: it treats the symbol as having no stored
\* dates and reports every trading day of the range as missing.
C37_FailedReadReportsEveryTradingDay ==
    (out.op = "detect_symbol_gaps" /\ out.fault = "existing") =>
        /\ ~out.raised
        /\ UNION {GapSpan(out.gaps[i]) : i \in 1..Len(out.gaps)}
                = TradingDaysIn(out.start_date, out.end_date)
        /\ out.gaps = detect_date_gaps(out.symbol,
                        get_trading_days(trading_calendar, out.start_date, out.end_date),
                        <<>>, out.frequency)

\* the read failed for a symbol with a stored trading day in the range, and
\* that day is reported missing
C37_Witness ==
    /\ out.op = "detect_symbol_gaps"
    /\ out.fault = "existing"
    /\ ~out.raised
    /\ \E d \in StoredDays(out.symbol, out.frequency) :
        /\ d \in TradingDaysIn(out.start_date, out.end_date)
        /\ \E i \in 1..Len(out.gaps) : d \in GapSpan(out.gaps[i])

\* ---------------------------------------------------------------- SpecStray
\* The threads of SpecConn, and callers that call release_lock without having
\* acquired the lock. threading.Lock has no owner: release() unlocks a locked
\* lock whichever thread calls it, and raises RuntimeError, which release_lock
\* catches and logs, only when the lock is unlocked.
InitStray == InitConn

StrayRelease(t) ==
    /\ threads[t].pc = "idle"
    /\ conn' = [conn EXCEPT !.m.lock = FALSE]
    /\ UNCHANGED threads
    /\ UNCHANGED <<bwVars, gapVars, syncVars, valVars, perfVars>>

NextStray ==
    \/ NextConn
    \/ \E t \in Threads : StrayRelease(t)

SpecStray == InitStray /\ [][NextStray]_vars

\* C38: a thread that has not acquired the provider lock cannot release it:
\* release_lock called by a non-holder while another thread holds the lock
\* leaves the lock held, so a thread between its acquire and its release has
\* the lock locked and no other thread is between its own.
C38_StrayReleaseLeavesLockHeld ==
    \A t \in Threads :
        Holding(t) =>
            /\ conn.m.lock
            /\ \A u \in Threads \ {t} : ~Holding(u)

\* C40: heartbeat never leaves the provider lock held: whenever it acquired
\* the lock for its probe the lock is released when it returns, whether the
\* query succeeded or raised (it then returns False and marks the adapter
\* disconnected); a heartbeat that could not acquire the lock returns False
\* without querying the provider; the lock is locked only while a thread is
\* between its acquire and its release.
C40_HeartbeatReleasesLock ==
    [][/\ \A t \in Threads :
            /\ (threads[t].pc = "probed" /\ threads'[t].pc = "idle") =>
                /\ ~conn'.m.lock
                /\ threads'[t].ret = ~threads[t].raised
                /\ threads[t].raised => ~conn'.m.adapter.connected
                /\ ~threads[t].raised =>
                        conn'.m.adapter.connected = conn.m.adapter.connected
            /\ (threads[t].op = "heartbeat" /\ threads[t].pc = "counting"
                    /\ threads'[t].pc = "idle") =>
                /\ ~threads'[t].ret
                /\ conn'.m.stats.last_heartbeat_time = conn.m.stats.last_heartbeat_time
                /\ conn'.m.last_access_time = conn.m.last_access_time
                /\ conn'.m.adapter = conn.m.adapter
                /\ conn'.m.lock = conn.m.lock
       /\ conn'.m.lock => \E t \in Threads : threads'[t].pc \in {"holding", "probing", "probed"}
      ]_vars

\* a heartbeat whose probe raised has returned False: the lock is free and
\* the adapter marked disconnected
C40_Witness ==
    \E t \in Threads :
        /\ threads[t].op = "heartbeat"
        /\ threads[t].pc = "idle"
        /\ ~threads[t].ret
        /\ conn.ghost.timeouts = 0
        /\ conn.ghost.acquired = 1
        /\ ~conn.m.lock
        /\ ~conn.m.adapter.connected
        /\ conn.m.stats.last_heartbeat_time = NoValue

\* ---- _update_trading_calendar: the years stored after the call
CalendarUpdateServed ==
    /\ sync.op = "update_trading_calendar"
    /\ ~sync.raised
    /\ \A i \in DOMAIN sync.calls : sync.env[sync.calls[i][2]] \in {"list", "dict"}

\* C39: after _update_trading_calendar(target_date) returns, the
\* provider having served every year asked for, the stored calendar has
\* entries in each of target_date.year-1, target_date.year and
\* target_date.year+1, whatever it contained before.
C39_NeededYearsStored ==
    CalendarUpdateServed => NeededYears(sync.target_date) \subseteq StoredYears(syncdb)

====
